---- MODULE Spec2Model ----
(***************************************************************************)
(* Face-identity verification and enrollment of the exam platform:         *)
(*   backend/face_processor_advanced.py  (save_face_encoding, verify_face) *)
(*   backend/face_processor_simple.py    (Haar / correlation fallback)     *)
(*   backend/face_processor.py           (face_recognition based version)  *)
(*   face and assessment/output/arcface_recognition.py (ArcFace wrapper)   *)
(*                                                                         *)
(* Numbers.  Similarities are integers in hundredths (cos 0.38 is 38).     *)
(* An aggregate is kept in two-hundredths (so that the mean of two and the *)
(* median of an even number of hundredths are exact), and a confidence in  *)
(* four-hundredths: (agg + 1) / 2  is  agg2 + 200, 1.0 is 400, the         *)
(* tolerance 0.80 is 320 and 0.6 is 240.  The arithmetic is exact; the     *)
(* rounding of the float32 / float64 operations is not modelled.           *)
(*                                                                         *)
(* Vectors.  An encoding is [size, v]: size is the flattened length of the *)
(* numpy array (512 ArcFace, 10000 Haar template, 128 face_recognition)    *)
(* and v is the vector itself, written in the plane that holds all of its  *)
(* mass: <<x, y>> with integer coordinates.  A unit vector has length 5    *)
(* on this grid ((3,4), (4,3), (5,0), ...), so that norms, dot products    *)
(* and cosines are integers.                                               *)
(***************************************************************************)
EXTENDS Integers, Sequences, FiniteSets, TLC

VARIABLES
    face_module,               \* the module the process took its face functions from
    ADVANCED_FACE_RECOGNITION, \* import-time flag of face_processor_advanced
    augProfile,                \* what the detector / extractor makes of each augmentation
    face_encoding,             \* user.face_encoding (the pickled template)
    face_registered_at,        \* user.face_registered_at (0 is None)
    now,                       \* datetime.utcnow()
    call,                      \* the last call: operation and arguments
    ret,                       \* what the last call returned
    enrolled,                  \* how many enrollments of the subject succeeded so far
    scores,                    \* the list of similarity scores given to the aggregation
    committed,                 \* the template of the subject's row in the database
    yoloEnv,                   \* what _init_yolo_if_needed finds: Config, model files, classes
    YOLO_NET,                  \* "None" or the loaded network
    YOLO_OUTPUT_LAYERS,        \* "None" or the names of the output layers
    YOLO_CLASSES,              \* the class names read from the classes file
    PHONE_CLASS_IDS,           \* the class ids counted as a phone
    monitor,                   \* the arguments of the last monitor_cheating_attempts call
    results,                   \* the record monitor_cheating_attempts returned
    modelEnv,                  \* whether FaceAnalysis can be constructed and prepared
    APP,                       \* arcface_recognition._APP: 0 (None) or an instance
    APP_LOCK,                  \* arcface_recognition._APP_LOCK: 0 (free) or its holder
    instances,                 \* the FaceAnalysis objects constructed so far
    pc,                        \* where each thread is in face_locations / _get_app
    app,                       \* the local variable app of _get_app, per thread
    returned,                  \* what face_locations gave each thread
    self,                      \* the fields of the ExamMonitor / AssessmentWindow object
    db,                        \* the rows db_manager wrote for the exam session
    clock,                     \* time.time(), in seconds
    threads,                   \* where each thread is, and its local variables
    loads                      \* the number of cv2.dnn.readNet calls of the process

vars == <<face_module, ADVANCED_FACE_RECOGNITION, augProfile, face_encoding, face_registered_at,
          now, call, ret, enrolled, scores, committed,
          yoloEnv, YOLO_NET, YOLO_OUTPUT_LAYERS, YOLO_CLASSES, PHONE_CLASS_IDS, monitor, results,
          modelEnv, APP, APP_LOCK, instances, pc, app, returned,
          self, db, clock, threads, loads>>

----------------------------------------------------------------------------
(* Program constants *)

TopK == 7
MedianMin == 3
MaxProcess == 60
MinPhotos == 8
NumPhotos == 15
CompareCap == 200
EmbeddingMinSize == 128
ArcFaceSize == 512
HaarSize == 10000
DlibSize == 128
DefaultTolerance == 320
SimpleTolerance == 240
LegacyTolerance == 240
MonitorTolerance == 320
MismatchThreshold == 320
SimpleMismatchThreshold == 200
PhoneThreshold == 10
CocoPhoneId == 67

(* Bounds of the model *)

MaxFrames == 8
MaxClock == 2
MaxScores == 9
\* Config.MAX_WARNINGS, Config.WARNING_COOLDOWN (seconds), and
\* Config.ARC_FACE_SIM_THRESHOLD (in hundredths); a face is verified when at
\* least MatchPercentage percent of the stored encodings match
MAX_WARNINGS == 10
WARNING_COOLDOWN == 3
ARC_FACE_SIM_THRESHOLD == 40
MatchPercentage == 50

\* the last second of an ExamMonitor session, and of an AssessmentWindow
\* session (whose two threads are followed step by step)
MaxTime == 33
MaxWindowTime == 6

MaxThreads == 2

----------------------------------------------------------------------------
(* Vector arithmetic (numpy) *)

Max(a, b) == IF a >= b THEN a ELSE b
Min(a, b) == IF a <= b THEN a ELSE b

Dot(a, b) == a[1] * b[1] + a[2] * b[2]

RECURSIVE SqrtFrom(_, _)
SqrtFrom(r, n) == IF (r + 1) * (r + 1) > n THEN r ELSE SqrtFrom(r + 1, n)

\* the integer square root (exact on the squares the model's vectors give)
ISqrt(n) == SqrtFrom(0, n)

\* np.linalg.norm
Norm(v) == ISqrt(Dot(v, v))

\* v / norm, on the grid where a unit vector has length 5
Normalize(v) == <<(5 * v[1]) \div Norm(v), (5 * v[2]) \div Norm(v)>>

ZeroVec == <<0, 0>>

NoEnc == [size |-> 0, v |-> ZeroVec]
NotFound == [found |-> FALSE, enc |-> NoEnc]
Found(e) == [found |-> TRUE, enc |-> e]

\* np.dot(a, b) / (norm(a) * norm(b)), in hundredths
Cosine(a, b) == (100 * Dot(a, b)) \div (Norm(a) * Norm(b))

----------------------------------------------------------------------------
(* Images.  A decoded image is given by what the detectors find in it: the  *)
(* faces in the order the detector returns them, each with its bounding box *)
(* (top, right, bottom, left), the direction of its embedding / of its      *)
(* pixel template, and its face_recognition (dlib) descriptor in tenths.    *)

Face(b, e, d) == [box |-> b, emb |-> e, dlib |-> d]

BoxSmall == <<10, 35, 30, 10>>
BoxLarge == <<0, 50, 40, 0>>

FaceA(b) == Face(b, <<5, 0>>, <<0, 0>>)
FaceB(b) == Face(b, <<3, 4>>, <<3, 4>>)
FaceC(b) == Face(b, <<-5, 0>>, <<9, 12>>)
FaceD(b) == Face(b, <<4, 3>>, <<6, 8>>)
FaceZ(b) == Face(b, ZeroVec, <<0, 0>>)

ImgEmpty == <<>>
ImgA == <<FaceA(BoxLarge)>>
ImgB == <<FaceB(BoxLarge)>>
ImgC == <<FaceC(BoxLarge)>>
ImgD == <<FaceD(BoxLarge)>>
ImgZ == <<FaceZ(BoxLarge)>>
ImgSmallFirst == <<FaceB(BoxSmall), FaceA(BoxLarge)>>
ImgLargeFirst == <<FaceA(BoxLarge), FaceB(BoxSmall)>>

Images == {ImgEmpty, ImgA, ImgB, ImgC, ImgD, ImgZ, ImgSmallFirst, ImgLargeFirst}

(* What a caller passes for an image: a decoded pixel matrix, a base64      *)
(* string (which decodes to an image, makes b64decode raise, or decodes to  *)
(* bytes cv2.imdecode returns None for), or a value of another type.        *)

Nd(img) == [type |-> "ndarray", dec |-> "ok", img |-> img]
B64(img) == [type |-> "str", dec |-> "ok", img |-> img]
BadB64 == [type |-> "str", dec |-> "raise", img |-> ImgEmpty]
Garbage == [type |-> "str", dec |-> "none", img |-> ImgEmpty]
Other == [type |-> "other", dec |-> "ok", img |-> ImgEmpty]

Rep(x, n) == [i \in 1..n |-> x]

----------------------------------------------------------------------------
(* arcface_recognition.py *)

\* face_locations: the boxes, in detector order
face_locations(img) == [i \in 1..Len(img) |-> img[i].box]

\* face_encodings: one unit embedding per face the detector finds, in detector
\* order; the boxes argument is ignored
face_encodings(img, boxes) ==
    [i \in 1..Len(img) |->
        [size |-> ArcFaceSize,
         v |-> IF img[i].emb = ZeroVec THEN ZeroVec ELSE Normalize(img[i].emb)]]

----------------------------------------------------------------------------
(* face_processor_advanced.py: extraction of one encoding from one image *)

\* area(box) of save_face_encoding / verify_face
area(box) == Max(0, box[3] - box[1]) * Max(0, box[2] - box[4])

\* sorted(locs, key=area, reverse=True)[0]: the sort is stable, so among
\* boxes of the largest area the first in detector order comes first
LargestIndex(boxes) ==
    CHOOSE i \in 1..Len(boxes) :
        /\ \A j \in 1..Len(boxes) : area(boxes[j]) <= area(boxes[i])
        /\ \A j \in 1..(i - 1) : area(boxes[j]) < area(boxes[i])

\* the ArcFace branch: locs -> largest -> face_encodings(image, locs) -> encs[0]
ArcFaceEncoding(img) ==
    LET locs == face_locations(img)
    IN  IF Len(locs) = 0 THEN NotFound
        ELSE LET sel == IF Len(locs) > 1 THEN <<locs[LargestIndex(locs)]>> ELSE locs
                 encs == face_encodings(img, sel)
             IN  IF Len(encs) = 0 THEN NotFound
                 ELSE IF Norm(encs[1].v) = 0 THEN NotFound
                 ELSE Found([size |-> ArcFaceSize, v |-> Normalize(encs[1].v)])

\* the Haar branch: faces sorted by w*h, faces[0] cropped, resized to 100x100,
\* flattened and z-scored; a flat region (std < 1e-6) is dropped
HaarEncoding(img) ==
    LET faces == face_locations(img)
    IN  IF Len(faces) = 0 THEN NotFound
        ELSE LET k == IF Len(faces) > 1 THEN LargestIndex(faces) ELSE 1
                 region == img[k].emb
             IN  IF region = ZeroVec THEN NotFound
                 ELSE Found([size |-> HaarSize, v |-> Normalize(region)])

ExtractEncoding(img) ==
    IF ADVANCED_FACE_RECOGNITION THEN ArcFaceEncoding(img) ELSE HaarEncoding(img)

----------------------------------------------------------------------------
(* face_processor_advanced.py: create_augmented_photos *)

AugKinds == {"brightness", "contrast", "sharpness", "blur"}

\* the derivatives in the order they are appended: brightness 0.7 .. 1.3,
\* contrast 0.8 .. 1.2, sharpness 0.7 and 1.3, blur radius 0.2 and 0.5
AugPlan ==
    Rep("brightness", 6) \o Rep("contrast", 4) \o Rep("sharpness", 2) \o Rep("blur", 2)

Turn(v) == <<0 - v[2], v[1]>>

\* What the detector and the extractor find in a derivative of an image.  The
\* pretrained model decides it; augProfile fixes its answer for each kind:
\* the same faces and embeddings, the same faces with the embedding turned by
\* a right angle, or no face at all.
ApplyAug(img, kind) ==
    CASE augProfile[kind] = "same" -> img
      [] augProfile[kind] = "lost" -> <<>>
      [] augProfile[kind] = "turn" ->
            [i \in 1..Len(img) |-> [img[i] EXCEPT !.emb = Turn(@)]]

create_augmented_photos(base_image, num_photos) ==
    LET augmented_photos ==
            <<base_image>> \o [i \in 1..Len(AugPlan) |-> ApplyAug(base_image, AugPlan[i])]
    IN  SubSeq(augmented_photos, 1, Min(num_photos, Len(augmented_photos)))

----------------------------------------------------------------------------
(* face_processor_advanced.py: save_face_encoding *)

\* an item of a list that ends up in images_to_process
DecodeOk(item) ==
    \/ item.type = "ndarray"
    \/ item.type = "str" /\ item.dec = "ok"

ImagesToProcess(image_data) ==
    LET kept == SelectSeq(image_data.items, DecodeOk)
    IN  [i \in 1..Len(kept) |-> kept[i].img]

\* as SkipAugmentation, a list skipping only when it holds a pixel matrix
SkipAugmentationRawOnly(image_data) ==
    \E i \in 1..Len(image_data.items) : image_data.items[i].type = "ndarray"

SkipAugmentation(image_data) ==
    image_data.list \/ image_data.items[1].type = "ndarray"

RECURSIVE AugmentAll(_)
AugmentAll(imgs) ==
    IF Len(imgs) = 0 THEN <<>>
    ELSE create_augmented_photos(Head(imgs), NumPhotos) \o AugmentAll(Tail(imgs))

\* as AugmentedImages, augmenting whatever was supplied
AugmentedImagesAlways(image_data) == AugmentAll(ImagesToProcess(image_data))

AugmentedImages(image_data) ==
    IF SkipAugmentation(image_data) THEN ImagesToProcess(image_data)
    ELSE AugmentAll(ImagesToProcess(image_data))

\* as AllEncodings, over all of augmented_images
AllEncodingsUncapped(augmented_images) ==
    LET ex == [i \in 1..Len(augmented_images) |-> ExtractEncoding(augmented_images[i])]
        good == SelectSeq(ex, LAMBDA e : e.found)
    IN  [i \in 1..Len(good) |-> good[i].enc]

\* the loop over augmented_images[:max_process]: the encodings of the images
\* that yield one, in order
AllEncodings(augmented_images) ==
    LET max_process == Min(Len(augmented_images), MaxProcess)
        ex == [i \in 1..max_process |-> ExtractEncoding(augmented_images[i])]
        good == SelectSeq(ex, LAMBDA e : e.found)
    IN  [i \in 1..Len(good) |-> good[i].enc]

NoTemplate == [form |-> "none", encs |-> <<>>]


\* as StoredTemplate, appending to the encodings already stored
StoredTemplateAppend(all_encodings) ==
    [form |-> "list", encs |-> face_encoding.encs \o all_encodings]

\* user.face_encoding = pickle.dumps(all_encodings)
StoredTemplate(all_encodings) == [form |-> "list", encs |-> all_encodings]

SaveFail(m) ==
    [ok |-> FALSE, msg |-> m, encs |-> <<>>, processed_count |-> 0, template |-> NoTemplate]


\* as EnoughPhotos, without a minimum
EnoughPhotosAny(processed_count) == processed_count >= 0

\* as EnoughPhotos, asking for more than the minimum
EnoughPhotosStrict(processed_count) == processed_count > MinPhotos

EnoughPhotos(processed_count) == ~(processed_count < MinPhotos)

\* the result of save_face_encoding and the encodings it would store
SaveOutcome(image_data) ==
    IF ~image_data.list /\ image_data.items[1].type = "other"
    THEN SaveFail("Invalid image format")
    ELSE IF ~image_data.list /\ image_data.items[1].dec = "raise"
    THEN SaveFail("Error processing face")
    ELSE IF Len(ImagesToProcess(image_data)) = 0
    THEN SaveFail("No valid images provided")
    ELSE IF Len(AugmentedImages(image_data)) = 0
    THEN SaveFail("Could not create photo variations")
    ELSE LET all_encodings == AllEncodings(AugmentedImages(image_data))
             processed_count == Len(all_encodings)
         IN  IF Len(all_encodings) = 0
             THEN SaveFail("Could not extract face features")
             ELSE IF ~EnoughPhotos(processed_count)
             THEN [SaveFail("Only N valid photos captured")
                       EXCEPT !.processed_count = processed_count]
             ELSE [ok |-> TRUE, msg |-> "Face registered successfully",
                   encs |-> all_encodings, processed_count |-> processed_count,
                   template |-> StoredTemplate(all_encodings)]

----------------------------------------------------------------------------
(* face_processor_advanced.py: verify_face, aggregation and decision *)

\* the values of vals in descending order, each as often as it occurs in s
RECURSIVE SortValues(_, _)
SortValues(vals, s) ==
    IF vals = {} THEN <<>>
    ELSE LET m == CHOOSE x \in vals : \A y \in vals : y <= x
         IN  Rep(m, Cardinality({i \in 1..Len(s) : s[i] = m})) \o SortValues(vals \ {m}, s)

\* similarities.sort(reverse=True)
SortDesc(s) == SortValues({s[i] : i \in 1..Len(s)}, s)

RECURSIVE SumSeq(_)
SumSeq(s) == IF Len(s) = 0 THEN 0 ELSE Head(s) + SumSeq(Tail(s))

\* np.median of a list sorted in descending order, in two-hundredths
Median2(s) ==
    LET n == Len(s)
    IN  IF n % 2 = 1 THEN 2 * s[(n + 1) \div 2]
        ELSE s[n \div 2] + s[(n \div 2) + 1]

\* np.mean, in two-hundredths (exact for the one or two values it is used on)
Mean2(s) == (2 * SumSeq(s)) \div Len(s)


\* as TopKOf, keeping every score
TopKOfAll(sorted) == sorted

\* similarities[:7]
TopKOf(sorted) == SubSeq(sorted, 1, Min(Len(sorted), TopK))


\* as Aggregate2, taking the best single similarity
Aggregate2Best(similarities) == 2 * SortDesc(similarities)[1]

\* agg: the median of the top_k if there are at least 3, else their mean
Aggregate2(similarities) ==
    LET top_k == TopKOf(SortDesc(similarities))
    IN  IF Len(top_k) >= MedianMin THEN Median2(top_k) ELSE Mean2(top_k)

\* confidence = (agg + 1.0) / 2.0, in four-hundredths
Confidence4(agg2) == agg2 + 200


\* as Matches, with an inclusive comparison
MatchesInclusive(confidence, tolerance) == confidence >= tolerance

\* matches = confidence > tolerance
Matches(confidence, tolerance) == confidence > tolerance

----------------------------------------------------------------------------
(* face_processor_advanced.py: verify_face, the stored template *)

\* what "for se in stored_encodings" iterates over: the encodings of a pickled
\* list; a pickled single array (written by face_processor_simple or
\* face_processor) iterates over its scalars, each of size 1 (two stand for
\* all of them here)
StoredItems(template) ==
    IF template.form = "list" THEN template.encs
    ELSE Rep([size |-> 1, v |-> ZeroVec], 2)

\* the indices of the stored encodings whose flattened size is the probe's
SameSizeIndices(stored, current_encoding) ==
    {i \in 1..Len(stored) : stored[i].size = current_encoding.size}

Skip == [valid |-> FALSE, sim |-> 0]
Sim(x) == [valid |-> TRUE, sim |-> x]

\* one comparison of the loop: the similarity in hundredths, or Skip for a
\* pair the loop leaves out (zero norm, NaN, or an exception of np.corrcoef on
\* arrays of different sizes)
Similarity(a, b) ==
    IF a.size = b.size /\ a.size >= EmbeddingMinSize
    THEN IF Norm(a.v) * Norm(b.v) = 0 THEN Skip ELSE Sim(Cosine(a.v, b.v))
    ELSE IF a.size # b.size THEN Skip
    ELSE IF Norm(a.v) = 0 \/ Norm(b.v) = 0 THEN Skip
    ELSE Sim(Cosine(a.v, b.v))

\* the positions 1 .. n of a list, in order
Positions(n) == [i \in 1..n |-> i]

\* the indices (into the stored list) of the encodings the loop compares: the
\* dimensionality filter, then compare_list = stored_encodings[:200]
CompareList(stored, current_encoding) ==
    LET filtered == SelectSeq(Positions(Len(stored)),
                              LAMBDA i : i \in SameSizeIndices(stored, current_encoding))
    IN  SubSeq(filtered, 1, Min(Len(filtered), CompareCap))


\* as UsedIndices, without the dimensionality filter and the size test
UsedIndicesAnySize(stored, current_encoding) ==
    SelectSeq(Positions(Len(stored)),
              LAMBDA i : Norm(stored[i].v) * Norm(current_encoding.v) # 0)

\* the indices that contribute a similarity
UsedIndices(stored, current_encoding) ==
    LET cl == CompareList(stored, current_encoding)
    IN  SelectSeq(cl, LAMBDA i : Similarity(stored[i], current_encoding).valid)

VerifyResult(matched, confidence, why, used, probe) ==
    [ok |-> matched, conf |-> confidence, msg |-> why, count |-> 0,
     used |-> used, probe |-> probe]


\* as Unmatched, with a neutral confidence of 0.5 in place of 0.0
UnmatchedNeutral(why, probe) == VerifyResult(FALSE, 200, why, <<>>, probe)

Unmatched(why, probe) == VerifyResult(FALSE, 0, why, <<>>, probe)

\* the probe image verify_face works on: None when it cannot be decoded
ProbeDecodes(image) ==
    \/ image.type = "ndarray"
    \/ image.type = "str" /\ image.dec = "ok"

\* verify_face(user, image, tolerance)
VerifyOutcome(template, image, tolerance) ==
    IF template.form = "none" THEN Unmatched("no face encoding", NoEnc)
    ELSE IF ~ProbeDecodes(image) THEN Unmatched("no image", NoEnc)
    ELSE LET cur == ExtractEncoding(image.img)
         IN  IF ~cur.found THEN Unmatched("no face", NoEnc)
             ELSE LET stored == StoredItems(template)
                      filtered == SameSizeIndices(stored, cur.enc)
                      used == UsedIndices(stored, cur.enc)
                      similarities ==
                          [k \in 1..Len(used) |-> Similarity(stored[used[k]], cur.enc).sim]
                  IN  IF filtered = {} THEN Unmatched("no matching dimensionality", cur.enc)
                      ELSE IF Len(similarities) = 0
                      THEN Unmatched("no valid similarities", cur.enc)
                      ELSE LET confidence == Confidence4(Aggregate2(similarities))
                           IN  VerifyResult(Matches(confidence, tolerance), confidence,
                                            "decided", used, cur.enc)

----------------------------------------------------------------------------
(* The calls *)

\* An enrollment payload: one bare item, or a list of n copies of one item
\* followed by m copies of another.
Single(item) == [list |-> FALSE, head |-> item, n |-> 1, tail |-> item, m |-> 0]
List(x, n, y, m) == [list |-> TRUE, head |-> x, n |-> n, tail |-> y, m |-> m]

\* image_data as save_face_encoding receives it
ImageData(payload) ==
    [list |-> payload.list, items |-> Rep(payload.head, payload.n) \o Rep(payload.tail, payload.m)]

NoPayload == Single(Other)

NoCall == [op |-> "none", image |-> Other, payload |-> NoPayload, tolerance |-> 0]
NoRet == [ok |-> FALSE, conf |-> 0, msg |-> "", count |-> 0, used |-> <<>>, probe |-> NoEnc]

SaveCall(name, payload) == [NoCall EXCEPT !.op = name, !.payload = payload]

VerifyCall(name, image, tolerance) ==
    [NoCall EXCEPT !.op = name, !.image = image, !.tolerance = tolerance]

\* as SaveResult, reporting a failure whatever the outcome
SaveResultFailure(out) ==
    [ok |-> FALSE, conf |-> 0, msg |-> out.msg, count |-> out.processed_count,
     used |-> <<>>, probe |-> NoEnc]

SaveResult(out) ==
    [ok |-> out.ok, conf |-> 0, msg |-> out.msg,
     count |-> IF out.ok THEN Len(out.encs) ELSE out.processed_count,
     used |-> <<>>, probe |-> NoEnc]

\* the payloads of /api/face/register, /api/admin/users/<id>/register-face and
\* tools/test_face_registration.py; the last two lists are one item longer
\* than the number of images save_face_encoding processes
SingleItems == {Nd(ImgA), B64(ImgA), B64(ImgSmallFirst), B64(ImgEmpty), BadB64, Other}
ListHeads == {Nd(ImgA), B64(ImgSmallFirst), Nd(ImgEmpty)}
ListTails == {Nd(ImgB), B64(ImgZ), BadB64}
HeadCounts == {0} \cup ((MaxFrames - 1)..MaxFrames)

EnrollInputs ==
    {Single(x) : x \in SingleItems}
    \cup {List(x, n, x, 0) : x \in ListHeads, n \in HeadCounts}
    \cup {List(x, n, y, 1) : x \in ListHeads, y \in ListTails, n \in HeadCounts}
    \cup {List(x, MaxProcess, Nd(ImgB), 1) : x \in {Nd(ImgA), Nd(ImgEmpty)}}
    \cup {List(x, 10, x, 0) : x \in {Nd(ImgA), B64(ImgA)}}

Probes ==
    {Nd(ImgEmpty), Nd(ImgA), Nd(ImgB), Nd(ImgC), Nd(ImgZ), Nd(ImgSmallFirst),
     B64(ImgA), BadB64, Other}

\* the defaults of the three verify_face signatures
Tolerances == {SimpleTolerance, LegacyTolerance, DefaultTolerance}

----------------------------------------------------------------------------
(* face_processor_simple.py *)

ArrayTemplate(e) == [form |-> "array", encs |-> <<e>>]

\* np.corrcoef(a, b)[0, 1] of two flattened pixel vectors, in hundredths; NaN
\* when one of them is constant
Pearson(a, b) ==
    IF Norm(a.v) = 0 \/ Norm(b.v) = 0 THEN Skip ELSE Sim(Cosine(a.v, b.v))

\* the largest face of the Haar detector for registration, the first face for
\* verification; the region is cropped, resized to 100x100 and flattened
SimpleRegion(img, k) == [size |-> HaarSize, v |-> img[k].emb]

\* save_face_encoding(user, image_or_images) of face_processor_simple
SimpleSaveOutcome(image_data) ==
    LET images == SelectSeq(image_data.items, LAMBDA x : x.type = "ndarray")
    IN  IF image_data.list /\ Len(images) = 0 THEN SaveFail("No valid images provided")
        ELSE IF ~image_data.list /\ image_data.items[1].type # "ndarray"
        THEN SaveFail("Invalid image format")
        ELSE LET image == images[1].img
                 faces == face_locations(image)
             IN  IF Len(faces) = 0 THEN SaveFail("No face detected in the image")
                 ELSE [ok |-> TRUE, msg |-> "Face registered successfully",
                       encs |-> <<SimpleRegion(image, LargestIndex(faces))>>,
                       processed_count |-> 1,
                       template |-> ArrayTemplate(SimpleRegion(image, LargestIndex(faces)))]

\* confidence = max(0, min(1, (similarity + 1) / 2)), in four-hundredths
SimpleConfidence4(similarity) == Max(0, Min(400, 2 * similarity + 200))

\* np.corrcoef(stored_encoding, current_encoding)[0, 1]: the rows of the
\* stacked matrix are those of the stored value, then the probe; stacking
\* raises when the row lengths differ
SimpleSimilarity(template, current) ==
    LET rows == template.encs \o <<current>>
    IN  IF \E i \in 1..Len(rows) : rows[i].size # current.size
        THEN [raised |-> TRUE, sim |-> 0]
        ELSE LET c == Pearson(rows[1], rows[2])
             IN  [raised |-> FALSE, sim |-> IF c.valid THEN c.sim ELSE 0]

\* verify_face(user, image, tolerance) of face_processor_simple
SimpleVerifyOutcome(template, image, tolerance) ==
    IF template.form = "none" THEN Unmatched("no face encoding", NoEnc)
    ELSE IF image.type # "ndarray" THEN Unmatched("error", NoEnc)
    ELSE IF Len(face_locations(image.img)) = 0 THEN Unmatched("no face", NoEnc)
    ELSE LET current == SimpleRegion(image.img, 1)
             s == SimpleSimilarity(template, current)
             confidence == SimpleConfidence4(s.sim)
         IN  IF s.raised THEN Unmatched("error", current)
             ELSE VerifyResult(Matches(confidence, tolerance), confidence, "decided",
                               <<1>>, current)

----------------------------------------------------------------------------
(* face_processor.py (face_recognition) *)

\* face_recognition.face_encodings(rgb_image, face_locations)[0]
DlibEncoding(img) == [size |-> DlibSize, v |-> img[1].dlib]

\* face_recognition.face_distance([stored], enc)[0]: the Euclidean distance,
\* in tenths
face_distance(a, b) ==
    ISqrt((a.v[1] - b.v[1]) * (a.v[1] - b.v[1]) + (a.v[2] - b.v[2]) * (a.v[2] - b.v[2]))

\* save_face_encoding(user, image) of face_processor
LegacySaveOutcome(image_data) ==
    IF image_data.list \/ image_data.items[1].type # "ndarray"
    THEN SaveFail("Error processing face")
    ELSE LET image == image_data.items[1].img
         IN  IF Len(image) = 0 THEN SaveFail("No face detected in the image")
             ELSE IF Len(image) > 1 THEN SaveFail("Multiple faces detected")
             ELSE [ok |-> TRUE, msg |-> "Face registered successfully",
                   encs |-> <<DlibEncoding(image)>>, processed_count |-> 1,
                   template |-> ArrayTemplate(DlibEncoding(image))]

\* 1 - distances[0], in four-hundredths
LegacyConfidence4(distance) == 400 - 40 * distance

\* verify_face(user, image, tolerance) of face_processor: compare_faces is
\* distance <= tolerance; a stored value that is not one 128-long array makes
\* the subtraction or the truth test of matches[0] raise
LegacyVerifyOutcome(template, image, tolerance) ==
    IF template.form = "none" THEN Unmatched("no face encoding", NoEnc)
    ELSE IF image.type # "ndarray" THEN Unmatched("error", NoEnc)
    ELSE IF Len(image.img) = 0 THEN Unmatched("no face", NoEnc)
    ELSE LET current == DlibEncoding(image.img)
         IN  IF template.form # "array" \/ template.encs[1].size # current.size
             THEN Unmatched("error", current)
             ELSE LET distance == face_distance(template.encs[1], current)
                  IN  VerifyResult(40 * distance <= tolerance, LegacyConfidence4(distance),
                                   "decided", <<1>>, current)

----------------------------------------------------------------------------
(* face_processor_advanced.py: phone detection with YOLO *)

PhoneNames == {"cell phone", "cellphone", "mobile phone", "phone"}

\* coco.names: 80 class names, "cell phone" on the line of class id 67
CocoNames == [i \in 1..80 |-> IF i = CocoPhoneId + 1 THEN "cell phone" ELSE "object"]

\* a classes file of a custom model, the phone being class id 1
CustomNames == <<"person", "phone", "book">>

\* a classes file in which no line is one of the phone names
UnnamedNames == [i \in 1..80 |-> "object"]

\* what _init_yolo_if_needed finds: Config is None (the ArcFace import failed),
\* the model files are missing, readNet raises, or the model loads with one of
\* the three classes files
YoloEnvs == {"no_config", "no_files", "load_error", "coco", "custom", "unnamed"}
YoloUnavailable == {"no_config", "no_files", "load_error"}

ClassesFile(env) ==
    CASE env = "coco" -> CocoNames
      [] env = "custom" -> CustomNames
      [] OTHER -> UnnamedNames

\* the four module globals, as one record
YoloUnloaded == [net |-> "None", layers |-> "None", classes |-> <<>>, phone_ids |-> {}]

\* dyn_ids: the (0-based) line numbers of the phone names
DynIds(classes) == {i - 1 : i \in {j \in 1..Len(classes) : classes[j] \in PhoneNames}}

\* _init_yolo_if_needed()
init_yolo_if_needed(y, env) ==
    IF y.net # "None" THEN y
    ELSE IF env = "no_config" THEN y
    ELSE IF env = "no_files" THEN y
    ELSE IF env = "load_error" THEN YoloUnloaded
    ELSE LET classes == ClassesFile(env)
             dyn_ids == DynIds(classes)
         IN  [net |-> "net", layers |-> "layers", classes |-> classes,
              phone_ids |-> IF dyn_ids # {} THEN dyn_ids ELSE {CocoPhoneId}]

\* an object in front of the camera: the class and the score (in hundredths)
\* the network gives it, and whether its contour is a tall rectangle
Object(c, s, r) == [class_id |-> c, confidence |-> s, phone_like |-> r]

PhoneResult(d, n) == [detected |-> d, count |-> n]

\* hits: the detections above the threshold whose class is a phone class (the
\* boxes of a scene are apart, so that NMS keeps each of them)
Hits(y, objects) ==
    LET phone_ids == IF y.phone_ids # {} THEN y.phone_ids ELSE {CocoPhoneId}
    IN  {i \in 1..Len(objects) :
            /\ objects[i].confidence > PhoneThreshold
            /\ objects[i].class_id \in phone_ids}

\* as detect_phone_usage, falling back to the contour heuristic without YOLO
detect_phone_usage_heuristic(y, objects, raised) ==
    LET n == Cardinality({i \in 1..Len(objects) : objects[i].phone_like})
    IN  PhoneResult(n > 0, n)

\* detect_phone_usage(image) after _init_yolo_if_needed() left the globals y;
\* raised: the forward pass raises
detect_phone_usage(y, objects, raised) ==
    IF y.net # "None" /\ y.layers # "None" /\ ~raised
    THEN PhoneResult(Cardinality(Hits(y, objects)) > 0, Cardinality(Hits(y, objects)))
    ELSE PhoneResult(FALSE, 0)

\* detect_phone_usage(image) of face_processor_simple: the contours that are
\* tall rectangles
SimpleDetectPhoneUsage(objects, raised) ==
    LET phone_like_objects == Cardinality({i \in 1..Len(objects) : objects[i].phone_like})
    IN  IF raised THEN PhoneResult(FALSE, 0)
        ELSE PhoneResult(phone_like_objects > 0, phone_like_objects)

----------------------------------------------------------------------------
(* face_processor_advanced.py, face_processor_simple.py: monitoring *)

FacesResult(m, n) == [multiple |-> m, count |-> n]

\* detect_multiple_faces(image), the same in both modules and both branches;
\* raised: the detector raises
detect_multiple_faces(img, raised) ==
    IF raised THEN FacesResult(FALSE, 0)
    ELSE FacesResult(Len(face_locations(img)) > 1, Len(face_locations(img)))

\* the results dict monitor_cheating_attempts starts from; error_message is ""
\* while the key is absent
DefaultResults ==
    [face_verified |-> FALSE, face_confidence |-> 0, multiple_faces |-> FALSE,
     face_count |-> 0, phone_detected |-> FALSE, phone_count |-> 0,
     overall_status |-> "safe", error_message |-> ""]


\* as OverallStatus, looking at the phone before the number of faces
OverallStatusPhoneFirst(face_verified, confidence, multiple_faces, phone_detected) ==
    IF ~face_verified /\ confidence < MismatchThreshold THEN "face_mismatch"
    ELSE IF phone_detected THEN "phone_detected"
    ELSE IF multiple_faces THEN "multiple_faces"
    ELSE "safe"

\* "Determine overall status" of face_processor_advanced
OverallStatus(face_verified, confidence, multiple_faces, phone_detected) ==
    IF ~face_verified /\ confidence < MismatchThreshold THEN "face_mismatch"
    ELSE IF multiple_faces THEN "multiple_faces"
    ELSE IF phone_detected THEN "phone_detected"
    ELSE "safe"

\* "Determine overall status" of face_processor_simple
SimpleOverallStatus(face_verified, confidence, multiple_faces, phone_detected) ==
    IF ~face_verified \/ confidence < SimpleMismatchThreshold THEN "face_mismatch"
    ELSE IF multiple_faces THEN "multiple_faces"
    ELSE IF phone_detected THEN "phone_detected"
    ELSE "safe"


\* as MonitorError, returning a fresh record
MonitorErrorReset(r) ==
    [DefaultResults EXCEPT !.overall_status = "error", !.error_message = "exception"]

\* the except branch of monitor_cheating_attempts
MonitorError(r) == [r EXCEPT !.overall_status = "error", !.error_message = "exception"]

\* what the camera shows: the image and the objects in it
Scene(image, objects) == [image |-> image, objects |-> objects]

MonitorResult(r, v, f, p, y) ==
    [results |-> r, face_verified |-> v.ok, confidence |-> v.conf,
     multiple_faces |-> f.multiple, phone_detected |-> p.detected, yolo |-> y]

\* monitor_cheating_attempts(image, user) of face_processor_advanced. user is
\* "None" or the subject whose template is given. fault: "verify", "faces",
\* "phone": the sub-check raises inside its own try; "after_verify",
\* "after_faces", "after_phone": the statement after the sub-check raises (a
\* print on a stream that is not ready) in the try of the monitor
MonitorOutcome(template, y, scene, user, fault) ==
    LET none == Unmatched("none", NoEnc)
        v == IF fault = "verify" THEN Unmatched("error", NoEnc)
             ELSE VerifyOutcome(template, scene.image, MonitorTolerance)
        r1 == [DefaultResults EXCEPT !.face_verified = v.ok, !.face_confidence = 100 * v.conf]
        f == detect_multiple_faces(scene.image.img, fault = "faces")
        r2 == [r1 EXCEPT !.multiple_faces = f.multiple, !.face_count = f.count]
        y2 == init_yolo_if_needed(y, yoloEnv)
        p == detect_phone_usage(y2, scene.objects, fault = "phone")
        r3 == [r2 EXCEPT !.phone_detected = p.detected, !.phone_count = p.count]
        status == OverallStatus(v.ok, v.conf, f.multiple, p.detected)
    IN  IF user = "None"
        THEN MonitorResult(MonitorError(DefaultResults), none, FacesResult(FALSE, 0),
                           PhoneResult(FALSE, 0), y)
        ELSE IF fault = "after_verify"
        THEN MonitorResult(MonitorError(r1), v, FacesResult(FALSE, 0), PhoneResult(FALSE, 0), y)
        ELSE IF fault = "after_faces"
        THEN MonitorResult(MonitorError(r2), v, f, PhoneResult(FALSE, 0), y)
        ELSE IF fault = "after_phone"
        THEN MonitorResult(MonitorError(r3), v, f, p, y2)
        ELSE MonitorResult([r3 EXCEPT !.overall_status = status], v, f, p, y2)

\* monitor_cheating_attempts(image, user) of face_processor_simple: user.id is
\* not read, and no statement stands between the sub-checks
SimpleMonitorOutcome(template, y, scene, user, fault) ==
    LET v == IF fault = "verify" \/ user = "None" THEN Unmatched("error", NoEnc)
             ELSE SimpleVerifyOutcome(template, scene.image, SimpleTolerance)
        f == detect_multiple_faces(scene.image.img, fault = "faces")
        p == SimpleDetectPhoneUsage(scene.objects, fault = "phone")
        status == SimpleOverallStatus(v.ok, v.conf, f.multiple, p.detected)
    IN  MonitorResult([DefaultResults EXCEPT !.face_verified = v.ok,
                                             !.face_confidence = v.conf,
                                             !.multiple_faces = f.multiple,
                                             !.face_count = f.count,
                                             !.phone_detected = p.detected,
                                             !.phone_count = p.count,
                                             !.overall_status = status],
                      v, f, p, y)

\* the arguments and the local variables of a call of monitor_cheating_attempts
MonitorCall(name, scene, user, fault, tolerance, out) ==
    [op |-> name, scene |-> scene, user |-> user, fault |-> fault, tolerance |-> tolerance,
     face_verified |-> out.face_verified, confidence |-> out.confidence,
     multiple_faces |-> out.multiple_faces, phone_detected |-> out.phone_detected]

NoMonitor ==
    [op |-> "none", scene |-> Scene(Other, <<>>), user |-> "None", fault |-> "none",
     tolerance |-> 0, face_verified |-> FALSE, confidence |-> 0, multiple_faces |-> FALSE,
     phone_detected |-> FALSE]

----------------------------------------------------------------------------
(* arcface_recognition.py: the process-wide model *)

Threads == 1..MaxThreads

\* whether FaceAnalysis(name='buffalo_l') can be constructed and prepared
ModelEnvs == {"ok", "no_model", "prepare_fails"}

\* what a call gave its thread: nothing yet, an exception, or the faces found
\* by the FaceAnalysis object the thread holds in app
NotReturned == [status |-> "none", app |-> 0, prepared |-> FALSE]
Raised == [status |-> "raised", app |-> 0, prepared |-> FALSE]
Detections(a, p) == [status |-> "ok", app |-> a, prepared |-> p]

----------------------------------------------------------------------------
(* Actions *)

YoloVars == <<yoloEnv, YOLO_NET, YOLO_OUTPUT_LAYERS, YOLO_CLASSES, PHONE_CLASS_IDS>>
MonitorVars == <<monitor, results>>
AppVars == <<modelEnv, APP, APP_LOCK, instances, pc, app, returned>>

DeskVars == <<self, db, clock, threads, loads>>

Frame == <<face_module, ADVANCED_FACE_RECOGNITION, augProfile, scores, YoloVars, MonitorVars,
           AppVars, DeskVars>>

\* the state of the module globals and of the threads when the process starts
YoloStart ==
    /\ YOLO_NET = "None"
    /\ YOLO_OUTPUT_LAYERS = "None"
    /\ YOLO_CLASSES = <<>>
    /\ PHONE_CLASS_IDS = {}

MonitorStart ==
    /\ monitor = NoMonitor
    /\ results = DefaultResults

AppStart ==
    /\ APP = 0
    /\ APP_LOCK = 0
    /\ instances = <<>>
    /\ pc = [t \in Threads |-> "idle"]
    /\ app = [t \in Threads |-> 0]
    /\ returned = [t \in Threads |-> NotReturned]

\* no desktop session, and no thread in detect_phone_usage
DeskStart ==
    /\ self = [kind |-> "none"]
    /\ db = [warnings |-> 0]
    /\ clock = 0
    /\ threads = <<>>
    /\ loads = 0


\* as Save, assigning the subject's fields before the outcome is looked at
SaveUnconditional(name, payload, out) ==
    /\ now' = now + 1
    /\ face_encoding' = out.template
    /\ face_registered_at' = now'
    /\ enrolled' = IF out.ok THEN enrolled + 1 ELSE enrolled
    /\ call' = SaveCall(name, payload)
    /\ ret' = SaveResult(out)
    /\ committed' = IF ret'.ok THEN face_encoding' ELSE committed
    /\ UNCHANGED Frame

\* the assignments every save_face_encoding ends with, its return value, and
\* the caller's "if success: db.session.commit()"
Save(name, payload, out) ==
    /\ now' = now + 1
    /\ face_encoding' = IF out.ok THEN out.template ELSE face_encoding
    /\ face_registered_at' = IF out.ok THEN now' ELSE face_registered_at
    /\ enrolled' = IF out.ok THEN enrolled + 1 ELSE enrolled
    /\ call' = SaveCall(name, payload)
    /\ ret' = SaveResult(out)
    /\ committed' = IF ret'.ok THEN face_encoding' ELSE committed
    /\ UNCHANGED Frame

\* save_face_encoding(user, image_data) of face_processor_advanced
SaveFaceEncoding ==
    /\ face_module = "advanced"
    /\ now < MaxClock
    /\ \E payload \in EnrollInputs :
          \E out \in {SaveOutcome(ImageData(payload))} :
              Save("save_face_encoding", payload, out)

\* as VerifyFace, a match refreshing the time of registration
VerifyFaceRefreshing ==
    /\ face_module = "advanced"
    /\ \E image \in Probes, tolerance \in Tolerances :
          /\ call' = VerifyCall("verify_face", image, tolerance)
          /\ ret' = VerifyOutcome(face_encoding, image, tolerance)
          /\ face_registered_at' = IF ret'.ok THEN now ELSE face_registered_at
    /\ UNCHANGED <<Frame, face_encoding, now, enrolled, committed>>

\* verify_face(user, image, tolerance) of face_processor_advanced
VerifyFace ==
    /\ face_module = "advanced"
    /\ \E image \in Probes, tolerance \in Tolerances :
          /\ call' = VerifyCall("verify_face", image, tolerance)
          /\ ret' = VerifyOutcome(face_encoding, image, tolerance)
    /\ UNCHANGED <<Frame, face_encoding, face_registered_at, now, enrolled, committed>>

\* save_face_encoding of face_processor_simple
SimpleSaveFaceEncoding ==
    /\ face_module = "simple"
    /\ now < MaxClock
    /\ \E payload \in EnrollInputs :
          \E out \in {SimpleSaveOutcome(ImageData(payload))} :
              Save("save_face_encoding", payload, out)

\* verify_face of face_processor_simple
SimpleVerifyFace ==
    /\ face_module = "simple"
    /\ \E image \in Probes, tolerance \in Tolerances :
          /\ call' = VerifyCall("verify_face", image, tolerance)
          /\ ret' = SimpleVerifyOutcome(face_encoding, image, tolerance)
    /\ UNCHANGED <<Frame, face_encoding, face_registered_at, now, enrolled, committed>>

\* save_face_encoding of face_processor
LegacySaveFaceEncoding ==
    /\ face_module = "legacy"
    /\ now < MaxClock
    /\ \E payload \in EnrollInputs :
          \E out \in {LegacySaveOutcome(ImageData(payload))} :
              Save("save_face_encoding", payload, out)

\* verify_face of face_processor
LegacyVerifyFace ==
    /\ face_module = "legacy"
    /\ \E image \in Probes, tolerance \in Tolerances :
          /\ call' = VerifyCall("verify_face", image, tolerance)
          /\ ret' = LegacyVerifyOutcome(face_encoding, image, tolerance)
    /\ UNCHANGED <<Frame, face_encoding, face_registered_at, now, enrolled, committed>>

\* as AdminClearFace, clearing the time of registration only
AdminClearFaceTimestamp ==
    /\ face_encoding' = face_encoding
    /\ face_registered_at' = 0
    /\ call' = [NoCall EXCEPT !.op = "admin_clear_face"]
    /\ ret' = [NoRet EXCEPT !.ok = TRUE]
    /\ committed' = face_encoding'
    /\ UNCHANGED <<Frame, now, enrolled>>

\* admin_clear_face: user.face_encoding = None, user.face_registered_at = None
AdminClearFace ==
    /\ face_encoding' = NoTemplate
    /\ face_registered_at' = 0
    /\ call' = [NoCall EXCEPT !.op = "admin_clear_face"]
    /\ ret' = [NoRet EXCEPT !.ok = TRUE]
    /\ committed' = face_encoding'
    /\ UNCHANGED <<Frame, now, enrolled>>

----------------------------------------------------------------------------
(* Initial states *)

AllSame == [k \in AugKinds |-> "same"]
AllTurn == [k \in AugKinds |-> "turn"]
BrightContrastLost == [AllSame EXCEPT !["brightness"] = "lost", !["contrast"] = "lost"]

\* the process: the module app.py imported its face functions from (or the
\* stand-alone face_processor), whether the ArcFace import of
\* face_processor_advanced succeeded, and how the pretrained model answers on
\* augmented photos
Deployments ==
    { [module |-> "advanced", adv |-> TRUE, aug |-> AllSame],
      [module |-> "advanced", adv |-> TRUE, aug |-> AllTurn],
      [module |-> "advanced", adv |-> TRUE, aug |-> BrightContrastLost],
      [module |-> "advanced", adv |-> FALSE, aug |-> AllSame],
      [module |-> "simple", adv |-> FALSE, aug |-> AllSame],
      [module |-> "legacy", adv |-> FALSE, aug |-> AllSame] }

E512(v) == [size |-> ArcFaceSize, v |-> v]
E128(v) == [size |-> DlibSize, v |-> v]
EHaar(v) == [size |-> HaarSize, v |-> v]

List128 == [form |-> "list", encs |-> <<E128(<<5, 0>>), E128(<<4, 3>>)>>]
ListMixed ==
    [form |-> "list",
     encs |-> <<E128(<<5, 0>>), E512(<<3, 4>>), E128(<<5, 0>>), E512(<<4, 3>>),
                E512(<<-5, 0>>)>>]
ListHaar == [form |-> "list", encs |-> <<EHaar(<<5, 0>>), EHaar(<<3, 4>>)>>]

\* rows the users table can hold when the process starts: no template, or a
\* template written by an earlier version of the pipeline (128-long entries),
\* possibly re-enrolled in part under the current one (512-long entries), or
\* the single array another of the three modules stored
PriorTemplates(module) ==
    CASE module = "advanced" ->
            {NoTemplate, List128, ListMixed, ArrayTemplate(EHaar(<<5, 0>>))}
      [] module = "simple" -> {NoTemplate, ListHaar, ArrayTemplate(E128(<<3, 4>>))}
      [] module = "legacy" -> {NoTemplate, List128, ArrayTemplate(EHaar(<<5, 0>>))}

Init ==
    /\ \E d \in Deployments :
          /\ face_module = d.module
          /\ ADVANCED_FACE_RECOGNITION = d.adv
          /\ augProfile = d.aug
          /\ face_encoding \in PriorTemplates(d.module)
    /\ committed = face_encoding
    /\ face_registered_at = 0
    /\ now = 0
    /\ call = NoCall
    /\ ret = NoRet
    /\ enrolled = 0
    /\ scores = <<>>
    /\ yoloEnv = "no_files"
    /\ YoloStart
    /\ MonitorStart
    /\ modelEnv = "ok"
    /\ AppStart
    /\ DeskStart

Next ==
    \/ SaveFaceEncoding
    \/ VerifyFace
    \/ SimpleSaveFaceEncoding
    \/ SimpleVerifyFace
    \/ LegacySaveFaceEncoding
    \/ LegacyVerifyFace
    \/ AdminClearFace

Spec == Init /\ [][Next]_vars

----------------------------------------------------------------------------
(* The aggregation and decision of verify_face on a given list of scores *)

ScoreValues == {-100, 30, 38, 95}

ScoreBase == <<95, 40, 38, 35, 30, 100, -100, 60, 60, 20, 96, 97>>

RECURSIVE Reverse(_)
Reverse(s) == IF Len(s) = 0 THEN <<>> ELSE Reverse(Tail(s)) \o <<Head(s)>>

ScoreLists ==
    UNION {[1..n -> ScoreValues] : n \in 1..3}
    \cup {SubSeq(ScoreBase, 1, n) : n \in 4..MaxScores}
    \cup {Reverse(SubSeq(ScoreBase, 1, n)) : n \in 4..MaxScores}
    \cup {SubSeq(ScoreBase, 4, n) : n \in 7..Min(MaxScores + 3, Len(ScoreBase))}

AggInit ==
    /\ face_module = "advanced"
    /\ ADVANCED_FACE_RECOGNITION = TRUE
    /\ augProfile = AllSame
    /\ face_encoding = NoTemplate
    /\ committed = NoTemplate
    /\ face_registered_at = 0
    /\ now = 0
    /\ call = NoCall
    /\ ret = NoRet
    /\ enrolled = 0
    /\ scores \in ScoreLists
    /\ yoloEnv = "no_files"
    /\ YoloStart
    /\ MonitorStart
    /\ modelEnv = "ok"
    /\ AppStart
    /\ DeskStart

\* verify_face from "similarities.sort(reverse=True)" to its return
AggregateScores ==
    /\ \E tolerance \in Tolerances :
          LET confidence == Confidence4(Aggregate2(scores))
          IN  /\ call' = VerifyCall("aggregate", Other, tolerance)
              /\ ret' = VerifyResult(Matches(confidence, tolerance), confidence,
                                     "decided", <<>>, NoEnc)
    /\ UNCHANGED <<Frame, face_encoding, face_registered_at, now, enrolled, committed>>

AggNext == AggregateScores

SpecAgg == AggInit /\ [][AggNext]_vars

----------------------------------------------------------------------------
(* Monitoring: monitor_cheating_attempts and detect_phone_usage *)

\* a phone the network is sure of, a phone scored exactly at the threshold, a
\* book (a tall rectangle of another class), and an object of class id 1 (a
\* bicycle for coco.names, the phone of the custom model)
Phone == Object(CocoPhoneId, 55, TRUE)
FaintPhone == Object(CocoPhoneId, PhoneThreshold, TRUE)
Book == Object(73, 90, TRUE)
Bicycle == Object(1, 80, FALSE)

ObjectLists == {<<>>, <<Phone>>, <<FaintPhone>>, <<Book>>, <<Bicycle>>, <<Phone, Book, Phone>>}

MonitorImages == {ImgEmpty, ImgA, ImgB, ImgC, ImgLargeFirst, ImgSmallFirst}

SubCheckFaults == {"verify", "faces", "phone"}
BodyFaults == {"after_verify", "after_faces", "after_phone"}

Yolo ==
    [net |-> YOLO_NET, layers |-> YOLO_OUTPUT_LAYERS, classes |-> YOLO_CLASSES,
     phone_ids |-> PHONE_CLASS_IDS]

\* the call leaves the record out.results and the module globals out.yolo
MonitorReturns(name, scene, user, fault, tolerance, out) ==
    /\ monitor' = MonitorCall(name, scene, user, fault, tolerance, out)
    /\ results' = out.results
    /\ YOLO_NET' = out.yolo.net
    /\ YOLO_OUTPUT_LAYERS' = out.yolo.layers
    /\ YOLO_CLASSES' = out.yolo.classes
    /\ PHONE_CLASS_IDS' = out.yolo.phone_ids
    /\ UNCHANGED <<face_module, ADVANCED_FACE_RECOGNITION, augProfile, scores, yoloEnv, AppVars,
                   DeskVars, face_encoding, face_registered_at, now, call, ret, enrolled,
                   committed>>

\* the calls of monitor_cheating_attempts: every image with every list of
\* objects, each fault on a scene with a phone and one or two faces, and a
\* call without a user
MonitorInputs(faults) ==
    {[img |-> i, objects |-> o, user |-> "user", fault |-> "none"] :
        i \in MonitorImages, o \in ObjectLists}
    \cup {[img |-> i, objects |-> <<Phone>>, user |-> "user", fault |-> f] :
              i \in {ImgA, ImgLargeFirst}, f \in faults}
    \cup {[img |-> ImgA, objects |-> <<Phone>>, user |-> "None", fault |-> "none"]}

\* face_processor_advanced.monitor_cheating_attempts(image, user)
MonitorCheatingAttempts ==
    /\ face_module = "advanced"
    /\ \E in \in MonitorInputs(SubCheckFaults \cup BodyFaults) :
          \E out \in {MonitorOutcome(face_encoding, Yolo, Scene(Nd(in.img), in.objects),
                                     in.user, in.fault)} :
             MonitorReturns("monitor", Scene(Nd(in.img), in.objects), in.user, in.fault,
                            MonitorTolerance, out)

\* face_processor_simple.monitor_cheating_attempts(image, user)
SimpleMonitorCheatingAttempts ==
    /\ face_module = "simple"
    /\ \E in \in MonitorInputs(SubCheckFaults) :
          \E out \in {SimpleMonitorOutcome(face_encoding, Yolo, Scene(Nd(in.img), in.objects),
                                           in.user, in.fault)} :
             MonitorReturns("simple_monitor", Scene(Nd(in.img), in.objects), in.user,
                            in.fault, SimpleTolerance, out)

\* face_processor_advanced.detect_phone_usage(image), called on its own
DetectPhoneUsage ==
    /\ face_module = "advanced"
    /\ \E objects \in ObjectLists, raised \in BOOLEAN :
          LET y == init_yolo_if_needed(Yolo, yoloEnv)
              p == detect_phone_usage(y, objects, raised)
              r == [DefaultResults EXCEPT !.phone_detected = p.detected,
                                          !.phone_count = p.count]
          IN  MonitorReturns("detect_phone", Scene(Nd(ImgEmpty), objects), "user",
                             IF raised THEN "phone" ELSE "none", 0,
                             MonitorResult(r, Unmatched("none", NoEnc), FacesResult(FALSE, 0),
                                           p, y))

MonDeployments ==
    { [module |-> "advanced", adv |-> TRUE, aug |-> AllSame],
      [module |-> "advanced", adv |-> FALSE, aug |-> AllSame],
      [module |-> "simple", adv |-> FALSE, aug |-> AllSame] }

\* the template an enrollment with photos of face A stored
EnrolledTemplate(module) ==
    IF module = "simple" THEN SimpleSaveOutcome(ImageData(Single(Nd(ImgA)))).template
    ELSE SaveOutcome(ImageData(List(Nd(ImgA), MinPhotos, Nd(ImgA), 0))).template

MonInit ==
    /\ \E d \in MonDeployments :
          /\ face_module = d.module
          /\ ADVANCED_FACE_RECOGNITION = d.adv
          /\ augProfile = d.aug
          /\ yoloEnv \in (IF d.adv THEN YoloEnvs \ {"no_config"} ELSE {"no_config"})
          /\ face_encoding \in {NoTemplate, EnrolledTemplate(d.module)}
    /\ committed = face_encoding
    /\ face_registered_at = 0
    /\ now = 0
    /\ call = NoCall
    /\ ret = NoRet
    /\ enrolled = 0
    /\ scores = <<>>
    /\ YoloStart
    /\ MonitorStart
    /\ modelEnv = "ok"
    /\ AppStart
    /\ DeskStart

MonNext ==
    \/ MonitorCheatingAttempts
    \/ SimpleMonitorCheatingAttempts
    \/ DetectPhoneUsage

SpecMon == MonInit /\ [][MonNext]_vars

----------------------------------------------------------------------------
(* arcface_recognition.py: threads calling face_locations / face_encodings *)

AppRest ==
    <<face_module, ADVANCED_FACE_RECOGNITION, augProfile, scores, YoloVars, MonitorVars,
      DeskVars, face_encoding, face_registered_at, now, call, ret, enrolled, committed,
      modelEnv>>

\* face_locations / face_encodings: app = _get_app(); a thread calls again
\* after its call ended (the objects constructed are capped)
CallGetApp(t) ==
    /\ pc[t] \in {"idle", "done"}
    /\ Len(instances) <= MaxThreads
    /\ pc' = [pc EXCEPT ![t] = "check"]
    /\ app' = [app EXCEPT ![t] = 0]
    /\ UNCHANGED <<AppRest, APP, APP_LOCK, instances, returned>>

\* if _APP is None:
CheckApp(t) ==
    /\ pc[t] = "check"
    /\ pc' = [pc EXCEPT ![t] = IF APP = 0 THEN "acquire" ELSE "return"]
    /\ UNCHANGED <<AppRest, APP, APP_LOCK, instances, app, returned>>

\* with _APP_LOCK:
Acquire(t) ==
    /\ pc[t] = "acquire"
    /\ APP_LOCK = 0
    /\ APP_LOCK' = t
    /\ pc' = [pc EXCEPT ![t] = "recheck"]
    /\ UNCHANGED <<AppRest, APP, instances, app, returned>>


\* as Recheck, without the second test of _APP
RecheckAlways(t) ==
    /\ pc[t] = "recheck"
    /\ pc' = [pc EXCEPT ![t] = "construct"]
    /\ UNCHANGED <<AppRest, APP, APP_LOCK, instances, app, returned>>

\* if _APP is None: (inside the lock)
Recheck(t) ==
    /\ pc[t] = "recheck"
    /\ pc' = [pc EXCEPT ![t] = IF APP = 0 THEN "construct" ELSE "release"]
    /\ UNCHANGED <<AppRest, APP, APP_LOCK, instances, app, returned>>

\* an exception leaves the with block, which releases the lock, and then
\* _get_app and face_locations / face_encodings
RaiseInLock(t) ==
    /\ APP_LOCK' = 0
    /\ pc' = [pc EXCEPT ![t] = "done"]
    /\ returned' = [returned EXCEPT ![t] = Raised]

\* app = FaceAnalysis(name='buffalo_l')
Construct(t) ==
    /\ pc[t] = "construct"
    /\ IF modelEnv = "no_model"
       THEN /\ RaiseInLock(t)
            /\ UNCHANGED <<AppRest, APP, instances, app>>
       ELSE /\ instances' = Append(instances, [prepared |-> FALSE])
            /\ app' = [app EXCEPT ![t] = Len(instances) + 1]
            /\ pc' = [pc EXCEPT ![t] = "prepare"]
            /\ UNCHANGED <<AppRest, APP, APP_LOCK, returned>>

\* app.prepare(ctx_id=-1, det_size=(640, 640))
Prepare(t) ==
    /\ pc[t] = "prepare"
    /\ IF modelEnv = "prepare_fails"
       THEN /\ RaiseInLock(t)
            /\ UNCHANGED <<AppRest, APP, instances, app>>
       ELSE /\ instances' = [instances EXCEPT ![app[t]].prepared = TRUE]
            /\ pc' = [pc EXCEPT ![t] = "assign"]
            /\ UNCHANGED <<AppRest, APP, APP_LOCK, app, returned>>

\* _APP = app
Assign(t) ==
    /\ pc[t] = "assign"
    /\ APP' = app[t]
    /\ pc' = [pc EXCEPT ![t] = "release"]
    /\ UNCHANGED <<AppRest, APP_LOCK, instances, app, returned>>

\* the end of the with block
Release(t) ==
    /\ pc[t] = "release"
    /\ APP_LOCK' = 0
    /\ pc' = [pc EXCEPT ![t] = "return"]
    /\ UNCHANGED <<AppRest, APP, instances, app, returned>>

\* return _APP, assigned to app in face_locations / face_encodings
ReturnApp(t) ==
    /\ pc[t] = "return"
    /\ app' = [app EXCEPT ![t] = APP]
    /\ pc' = [pc EXCEPT ![t] = "get"]
    /\ UNCHANGED <<AppRest, APP, APP_LOCK, instances, returned>>

\* faces = app.get(frame): a None app, or one that is not prepared, raises
GetFaces(t) ==
    /\ pc[t] = "get"
    /\ returned' = [returned EXCEPT ![t] =
                        IF app[t] = 0 THEN Raised
                        ELSE Detections(app[t], instances[app[t]].prepared)]
    /\ pc' = [pc EXCEPT ![t] = "done"]
    /\ UNCHANGED <<AppRest, APP, APP_LOCK, instances, app>>

AppInit ==
    /\ face_module = "advanced"
    /\ ADVANCED_FACE_RECOGNITION = TRUE
    /\ augProfile = AllSame
    /\ face_encoding = NoTemplate
    /\ committed = NoTemplate
    /\ face_registered_at = 0
    /\ now = 0
    /\ call = NoCall
    /\ ret = NoRet
    /\ enrolled = 0
    /\ scores = <<>>
    /\ yoloEnv = "no_files"
    /\ YoloStart
    /\ MonitorStart
    /\ modelEnv \in ModelEnvs
    /\ AppStart
    /\ DeskStart

AppNext ==
    \E t \in Threads :
        \/ CallGetApp(t)
        \/ CheckApp(t)
        \/ Acquire(t)
        \/ Recheck(t)
        \/ Construct(t)
        \/ Prepare(t)
        \/ Assign(t)
        \/ Release(t)
        \/ ReturnApp(t)
        \/ GetFaces(t)

SpecApp == AppInit /\ [][AppNext]_vars

----------------------------------------------------------------------------
(* Properties *)

\* a probe that decodes to an image in which the detector finds no face
NoFaceProbe(image) == image.type \in {"ndarray", "str"} /\ image.dec = "ok" /\ Len(image.img) = 0

\* the k-th largest value of a list of scores
KthLargest(s, k) ==
    CHOOSE x \in {s[i] : i \in 1..Len(s)} :
        /\ Cardinality({i \in 1..Len(s) : s[i] > x}) < k
        /\ k <= Cardinality({i \in 1..Len(s) : s[i] >= x})

\* the median of the 7 highest scores (of all when fewer) if there are at
\* least 3, else their mean; in two-hundredths
ExpectedAggregate2(s) ==
    LET m == Min(Len(s), 7)
    IN  IF m >= 3
        THEN IF m % 2 = 1 THEN 2 * KthLargest(s, (m + 1) \div 2)
             ELSE KthLargest(s, m \div 2) + KthLargest(s, (m \div 2) + 1)
        ELSE IF m = 2 THEN KthLargest(s, 1) + KthLargest(s, 2)
        ELSE 2 * KthLargest(s, 1)

\* the cosines of the probe with the stored encodings at the given indices
CosinesAt(stored, indices, probe) ==
    [k \in 1..Len(indices) |-> Cosine(stored[indices[k]].v, probe.v)]

\* C1: verify_face returns exactly (False, 0.0) whenever the subject has no
\* stored template or face detection on the probe image finds no face, for
\* every probe and tolerance (face_processor_advanced and face_processor_simple).
C1_FailFast ==
    (/\ call.op = "verify_face"
     /\ face_module \in {"advanced", "simple"}
     /\ (face_encoding.form = "none" \/ NoFaceProbe(call.image)))
    => (ret.ok = FALSE /\ ret.conf = 0)

\* a verification of an enrolled subject with an image without a face
C1_Witness ==
    /\ call.op = "verify_face"
    /\ face_module = "advanced"
    /\ face_encoding.form = "list"
    /\ enrolled > 0
    /\ NoFaceProbe(call.image)
    /\ ret.ok = FALSE /\ ret.conf = 0

\* C2: in verify_face only the stored embeddings whose flattened length is the
\* probe's take part in the similarities and their aggregation (of a template
\* mixing 128-long and 512-long vectors a 512-long probe uses the 512-long
\* entries only), and when no stored embedding has the probe's length the
\* result is (False, 0.0).
C2_DimensionalityIsolation ==
    (call.op = "verify_face" /\ face_module = "advanced" /\ ret.probe # NoEnc) =>
        LET stored == StoredItems(face_encoding)
            same == {i \in 1..Len(stored) : stored[i].size = ret.probe.size}
            valid == {i \in same : Norm(stored[i].v) # 0}
        IN  /\ \A k \in 1..Len(ret.used) : ret.used[k] \in same
            /\ same = {} => (ret.ok = FALSE /\ ret.conf = 0)
            /\ ret.msg = "decided" =>
                  ret.conf =
                      200 + ExpectedAggregate2(
                                CosinesAt(stored,
                                          SelectSeq(Positions(Len(stored)), LAMBDA i : i \in valid),
                                          ret.probe))

\* a 512-long probe decided on the three 512-long entries of the mixed template
C2_Witness ==
    /\ call.op = "verify_face"
    /\ face_module = "advanced"
    /\ face_encoding = ListMixed
    /\ ret.probe.size = 512
    /\ ret.msg = "decided"
    /\ ret.used = <<2, 4, 5>>

\* C3: for every non-empty list of similarity scores the aggregate is the
\* median of the 7 highest scores (of all of them when fewer than 7) if at
\* least 3 are available, and their mean otherwise; for the scores
\* [0.95, 0.40, 0.38, 0.35, 0.30] the aggregate is 0.38, the confidence is
\* 0.69 and the probe is rejected at tolerance 0.80.
C3_Aggregation ==
    (call.op = "aggregate") =>
        /\ ret.conf = 200 + ExpectedAggregate2(scores)
        /\ scores = <<95, 40, 38, 35, 30>> =>
              /\ ret.conf = 276
              /\ call.tolerance = 320 => ret.ok = FALSE

\* the five scores of the example, rejected at 0.80
C3_Witness ==
    /\ call.op = "aggregate"
    /\ scores = <<95, 40, 38, 35, 30>>
    /\ call.tolerance = 320
    /\ ret.conf = 276
    /\ ret.ok = FALSE

\* C4: every result of verify_face satisfies matched = (confidence >
\* tolerance), the comparison being strict, where the confidence is
\* (aggregate + 1) / 2; a confidence equal to the tolerance is a rejection.
C4_StrictDecision ==
    (call.op = "verify_face" /\ face_module \in {"advanced", "simple"}) =>
        /\ ret.ok <=> (ret.conf > call.tolerance)
        /\ (face_module = "advanced" /\ ret.msg = "decided") =>
              ret.conf =
                  200 + ExpectedAggregate2(
                            CosinesAt(StoredItems(face_encoding), ret.used, ret.probe))

\* a confidence of exactly 0.80 at the default tolerance, rejected
C4_Witness ==
    /\ call.op = "verify_face"
    /\ face_module = "advanced"
    /\ ret.msg = "decided"
    /\ call.tolerance = DefaultTolerance
    /\ ret.conf = call.tolerance
    /\ ret.ok = FALSE

\* the step is a call of save_face_encoding of face_processor_advanced
AdvancedSaveStep ==
    now' # now /\ face_module = "advanced" /\ call'.op = "save_face_encoding"

\* the step is a verification with the image a successful enrollment from a
\* single image has just used
SelfVerifyStep ==
    /\ face_module = "advanced"
    /\ call.op = "save_face_encoding"
    /\ ret.ok
    /\ ~call.payload.list
    /\ call'.op = "verify_face"
    /\ call'.image = call.payload.head

\* C5 as claimed: with a deterministic extractor, enrolling from a single
\* image and then verifying with that same image yields confidence >=
\* tolerance.
C5_SelfMatch == [][SelfVerifyStep => ret'.conf >= call'.tolerance]_vars

\* C5, amended: the self-match yields confidence >= tolerance exactly when at
\* least four stored embeddings (the image's own and those of its augmented
\* derivatives) have cosine similarity >= 2 * tolerance - 1 with the image's
\* embedding; it yields confidence 1.0 when the extractor gives every
\* derivative the embedding of the original.
C5_SelfMatchAmended ==
    [][SelfVerifyStep =>
          LET stored == face_encoding.encs
              near == {i \in 1..Len(stored) :
                          200 + 2 * Cosine(stored[i].v, ret'.probe.v) >= call'.tolerance}
          IN  /\ (ret'.conf >= call'.tolerance) <=> (Cardinality(near) >= 4)
              /\ augProfile = AllSame => ret'.conf = 400]_vars

\* a successful self-match against the 15 embeddings of a single-image
\* enrollment
C5_Witness ==
    /\ call.op = "verify_face"
    /\ face_module = "advanced"
    /\ call.image = B64(ImgA)
    /\ enrolled > 0
    /\ Len(face_encoding.encs) = NumPhotos
    /\ ret.conf = 400
    /\ ret.ok

\* C6: the confidence of every result of verify_face (face_processor_advanced,
\* face_processor_simple and face_processor) lies in [0, 1].
C6_ConfidenceRange ==
    (call.op = "verify_face") => (0 <= ret.conf /\ ret.conf <= 400)

\* the embedding of the face with the largest bounding box of an image
LargestFaceEmbedding(img) == Normalize(img[LargestIndex(face_locations(img))].emb)

\* C7: when the probe (or an enrollment image) contains several detected
\* faces, the embedding used is that of the face with the largest bounding-box
\* area, whatever the order the detector returns the faces in.
C7_LargestFace ==
    /\ (/\ call.op = "verify_face"
        /\ face_module = "advanced"
        /\ ret.probe # NoEnc
        /\ Len(call.image.img) > 1)
       => ret.probe.v = LargestFaceEmbedding(call.image.img)
    /\ (/\ call.op = "save_face_encoding"
        /\ face_module = "advanced"
        /\ ret.ok
        /\ call.payload.list /\ call.payload.m = 0
        /\ Len(call.payload.head.img) > 1)
       => \A i \in 1..Len(face_encoding.encs) :
             face_encoding.encs[i].v = LargestFaceEmbedding(call.payload.head.img)

\* every image of the payload is one in which no face is detected
AllZeroFaces(payload) ==
    \A i \in 1..Len(ImageData(payload).items) :
        DecodeOk(ImageData(payload).items[i]) => Len(ImageData(payload).items[i].img) = 0

\* C8: for every enrollment input in which every supplied image has zero
\* detected faces, save_face_encoding returns (False, message) and leaves the
\* subject's stored template and registration timestamp as they were.
C8_NoFaceEnrollment ==
    [][(AdvancedSaveStep /\ AllZeroFaces(call'.payload)) =>
          /\ ret'.ok = FALSE
          /\ face_encoding' = face_encoding
          /\ face_registered_at' = face_registered_at]_vars

\* an enrolled subject, re-enrolled from eight frames without a face: the
\* earlier template and its timestamp are still there
C8_Witness ==
    /\ call.op = "save_face_encoding"
    /\ face_module = "advanced"
    /\ call.payload.head = Nd(ImgEmpty) /\ call.payload.n >= 8
    /\ AllZeroFaces(call.payload)
    /\ ret.ok = FALSE
    /\ enrolled = 1
    /\ face_encoding.form = "list"
    /\ face_registered_at = 1 /\ now = 2

\* the decoded images of a payload that are processed
ProcessedItems(payload) ==
    LET kept == SelectSeq(ImageData(payload).items, DecodeOk)
    IN  SubSeq(kept, 1, Min(Len(kept), 60))

\* the number of processed images with exactly one face that yields an embedding
AcceptedSingleFace(payload) ==
    Cardinality({i \in 1..Len(ProcessedItems(payload)) :
                    /\ Len(ProcessedItems(payload)[i].img) = 1
                    /\ ProcessedItems(payload)[i].img[1].emb # ZeroVec})

NoMultiFace(payload) ==
    \A i \in 1..Len(ProcessedItems(payload)) : Len(ProcessedItems(payload)[i].img) <= 1

\* C9: for every enrollment input with at least 8 accepted single-face images
\* (images that are processed and yield an embedding) save_face_encoding
\* returns success, and when augmentation is skipped the
\* stored template holds exactly as many embeddings as there are accepted
\* images.
C9_EnoughAccepted ==
    (/\ call.op = "save_face_encoding"
     /\ face_module = "advanced"
     /\ call.payload.list
     /\ AcceptedSingleFace(call.payload) >= 8)
    => /\ ret.ok
       /\ NoMultiFace(call.payload) =>
             /\ Len(face_encoding.encs) = AcceptedSingleFace(call.payload)
             /\ ret.count = AcceptedSingleFace(call.payload)

\* exactly eight accepted frames and a ninth item that is not accepted
C9_Witness ==
    /\ call.op = "save_face_encoding"
    /\ face_module = "advanced"
    /\ call.payload.list /\ call.payload.m = 1
    /\ AcceptedSingleFace(call.payload) = 8
    /\ ret.ok
    /\ Len(face_encoding.encs) = 8

\* C10: two successful enrollments of the same subject in sequence leave a
\* template that holds only the embeddings of the second: its embedding count
\* is that of the second enrollment alone, never the union of both.
C10_Overwrite ==
    [][(/\ AdvancedSaveStep
        /\ enrolled >= 1
        /\ face_encoding.form = "list"
        /\ ret'.ok) =>
          /\ Len(face_encoding'.encs) = ret'.count
          /\ (call'.payload.list /\ NoMultiFace(call'.payload)) =>
                Len(face_encoding'.encs) = AcceptedSingleFace(call'.payload)]_vars

\* a second successful enrollment, of nine frames
C10_Witness ==
    /\ call.op = "save_face_encoding"
    /\ face_module = "advanced"
    /\ enrolled = 2
    /\ ret.ok
    /\ call.payload.list
    /\ Len(face_encoding.encs) = 9
    /\ ret.count = 9

\* every item of the payload decodes to an image with exactly one face that
\* yields an embedding
AllSingleFace(payload) ==
    \A i \in 1..Len(ImageData(payload).items) :
        /\ DecodeOk(ImageData(payload).items[i])
        /\ Len(ImageData(payload).items[i].img) = 1
        /\ ImageData(payload).items[i].img[1].emb # ZeroVec

\* the last call is save_face_encoding of face_processor_advanced
AdvancedSave == call.op = "save_face_encoding" /\ face_module = "advanced"

\* C11 as claimed: enrolling with 10 images that each contain exactly one face
\* gives a template of min(10 x (1 + augmentation count), 60) embeddings, the
\* augmentation count being the 14 derivatives of create_augmented_photos.
C11_AugmentedCount ==
    (/\ AdvancedSave
     /\ call.payload.list
     /\ Len(ImageData(call.payload).items) = 10
     /\ AllSingleFace(call.payload))
    => /\ ret.ok
       /\ Len(face_encoding.encs) = Min(10 * (1 + 14), 60)

\* C11, amended: a list of images is never augmented, so a list of n >= 8
\* images with exactly one face each gives min(n, 60) embeddings (10 for 10
\* images); only a single base64 image is augmented, and it gives 1 + 14 = 15
\* embeddings when every derivative yields one.
C11_ListCount ==
    /\ (/\ AdvancedSave
        /\ call.payload.list
        /\ Len(ImageData(call.payload).items) >= 8
        /\ AllSingleFace(call.payload))
       => /\ ret.ok
          /\ Len(face_encoding.encs) = Min(Len(ImageData(call.payload).items), 60)
    /\ (/\ AdvancedSave
        /\ ~call.payload.list
        /\ call.payload.head.type = "str"
        /\ AllSingleFace(call.payload)
        /\ augProfile = AllSame)
       => /\ ret.ok
          /\ Len(face_encoding.encs) = 15

\* ten base64 images with one face each, enrolled as ten embeddings
C11_Witness ==
    /\ AdvancedSave
    /\ call.payload = List(B64(ImgA), 10, B64(ImgA), 0)
    /\ ret.ok
    /\ Len(face_encoding.encs) = 10

\* the number of photos of an enrollment that yield an embedding, for a
\* payload whose images hold at most one face: the accepted frames of a list,
\* the one photo of a pixel matrix, the original and the derivatives in which
\* the face is still found of a single base64 image
YieldingPhotos(payload) ==
    IF payload.list THEN AcceptedSingleFace(payload)
    ELSE IF ~DecodeOk(payload.head) \/ Len(payload.head.img) = 0 THEN 0
    ELSE IF payload.head.img[1].emb = ZeroVec THEN 0
    ELSE IF payload.head.type = "ndarray" THEN 1
    ELSE 1 + Cardinality({i \in 1..14 : augProfile[AugPlan[i]] # "lost"})

\* C12 as claimed: save_face_encoding fails whenever fewer than 8 distinct
\* source images contributed an embedding, augmented derivatives not counted;
\* a success therefore has at least 8 source images.
C12_SourceImages ==
    (AdvancedSave /\ ret.ok) => Len(ImageData(call.payload).items) >= 8

\* C12, amended: save_face_encoding fails whenever no embedding was extracted
\* or fewer than 8 of the processed photos yielded one, source photos and
\* their augmented derivatives counted alike; a stored template holds at
\* least 8 embeddings.
C12_FailureConditions ==
    AdvancedSave =>
        /\ (NoMultiFace(call.payload) /\ YieldingPhotos(call.payload) < 8) => ~ret.ok
        /\ ret.ok => (Len(face_encoding.encs) >= 8 /\ ret.count >= 8)
        /\ (~ret.ok /\ ret.msg = "Only N valid photos captured") => (0 < ret.count /\ ret.count < 8)

\* a single base64 image of which only the original and four derivatives
\* yield an embedding: five photos, rejected
C12_Witness ==
    /\ AdvancedSave
    /\ call.payload = Single(B64(ImgA))
    /\ augProfile = BrightContrastLost
    /\ YieldingPhotos(call.payload) = 5
    /\ ~ret.ok
    /\ ret.count = 5

\* the step is a call of save_face_encoding (of any of the three modules)
SaveStep == now' # now /\ call'.op = "save_face_encoding"

FrameEmbeddings(payload) ==
    {Normalize(ImageData(payload).items[i].img[j].emb) :
        <<i, j>> \in {p \in (1..Len(ImageData(payload).items)) \X (1..2) :
                        /\ DecodeOk(ImageData(payload).items[p[1]])
                        /\ p[2] <= Len(ImageData(payload).items[p[1]].img)
                        /\ ImageData(payload).items[p[1]].img[p[2]].emb # ZeroVec}}

\* C14: when save_face_encoding is given a list of frames no augmentation is
\* applied: every embedding of the resulting template is the embedding of a
\* face of one of the supplied frames, and there are no more embeddings than
\* frames.
C14_NoAugmentationForFrames ==
    (AdvancedSave /\ call.payload.list /\ ret.ok) =>
        /\ \A i \in 1..Len(face_encoding.encs) :
              face_encoding.encs[i].v \in FrameEmbeddings(call.payload)
        /\ Len(face_encoding.encs) <= Len(ImageData(call.payload).items)

\* ten frames enrolled with an extractor that tells every derivative from its
\* original
C14_Witness ==
    /\ AdvancedSave
    /\ augProfile = AllTurn
    /\ call.payload.list
    /\ Len(ImageData(call.payload).items) = 10
    /\ ret.ok
    /\ Len(face_encoding.encs) = 10

\* C15: one call of save_face_encoding submits at most 60 images to detection
\* and extraction, so it reports at most 60 processed photos and a stored
\* template never holds more than 60 embeddings.
C15_ProcessingCap ==
    face_module = "advanced" =>
        /\ Len(face_encoding.encs) <= 60
        /\ call.op = "save_face_encoding" => ret.count <= 60

\* 61 frames with a face each: 60 embeddings stored
C15_Witness ==
    /\ AdvancedSave
    /\ Len(ImageData(call.payload).items) = 61
    /\ ret.ok
    /\ Len(face_encoding.encs) = 60
    /\ ret.count = 60

\* the last call was a monitor_cheating_attempts that reached its status
MonitorDecided ==
    /\ monitor.op \in {"monitor", "simple_monitor"}
    /\ results.overall_status # "error"

\* the face-mismatch condition: not verified, and the confidence below the
\* tolerance of the verification
FaceMismatch == ~monitor.face_verified /\ monitor.confidence < monitor.tolerance

\* C16: the status of monitor_cheating_attempts follows the priority face
\* mismatch > multiple faces > phone detected > safe: with the face-mismatch
\* condition it is 'face_mismatch' whatever else is detected, several faces
\* win over a phone, and 'safe' is returned only when none of the three holds
C16_StatusPriority ==
    MonitorDecided =>
        /\ results.overall_status \in {"face_mismatch", "multiple_faces", "phone_detected", "safe"}
        /\ FaceMismatch => results.overall_status = "face_mismatch"
        /\ (results.overall_status # "face_mismatch" /\ results.multiple_faces)
               => results.overall_status = "multiple_faces"
        /\ results.overall_status = "multiple_faces" => results.multiple_faces
        /\ results.overall_status = "phone_detected"
               => results.phone_detected /\ ~results.multiple_faces
        /\ results.overall_status = "safe"
               => ~FaceMismatch /\ ~results.multiple_faces /\ ~results.phone_detected

C16_Witness ==
    /\ monitor.op = "monitor"
    /\ FaceMismatch
    /\ results.multiple_faces
    /\ results.phone_detected
    /\ results.overall_status = "face_mismatch"

MonitorCalled == monitor.op \in {"monitor", "simple_monitor"}

\* something failed during the last call of monitor_cheating_attempts
MonitorFailure == MonitorCalled /\ (monitor.fault # "none" \/ monitor.user = "None")

\* the failure was raised in the body of monitor_cheating_attempts itself
BodyFailure ==
    /\ monitor.op = "monitor"
    /\ monitor.fault \in BodyFaults \/ monitor.user = "None"

C19_FailsClosed ==
    \A t \in Threads :
        (modelEnv # "ok" /\ pc[t] = "done") => returned[t].status = "ok"

PreparedInstances == {i \in 1..Len(instances) : instances[i].prepared}

\* C20: under any interleaving of first calls from several threads the model
\* is constructed and prepared at most once, every caller works on that one
\* instance, and no caller holds a model that is not prepared
C20_OneTimeInit ==
    /\ Cardinality(PreparedInstances) <= 1
    /\ modelEnv = "ok" => Len(instances) <= 1
    /\ APP # 0 => APP \in PreparedInstances
    /\ \A t \in Threads :
          /\ pc[t] = "get" => app[t] # 0 /\ app[t] = APP /\ app[t] \in PreparedInstances
          /\ returned[t].status = "ok" => returned[t].app = APP /\ returned[t].prepared
          /\ (modelEnv = "ok" /\ pc[t] = "done") => returned[t].status = "ok"

\* a thread that passed the first test while _APP was None finds, inside the
\* lock, the model another thread installed and already used
C20_Witness ==
    \E t, u \in Threads :
        /\ t # u
        /\ pc[t] = "release"
        /\ app[t] = 0
        /\ APP # 0
        /\ returned[u] = Detections(APP, TRUE)
        /\ Len(instances) = 1

\* what save_face_encoding of the module in use makes of a payload, whatever
\* the subject held before
EnrollOutcome(payload) ==
    CASE face_module = "advanced" -> SaveOutcome(ImageData(payload))
      [] face_module = "simple" -> SimpleSaveOutcome(ImageData(payload))
      [] face_module = "legacy" -> LegacySaveOutcome(ImageData(payload))

\* C21: a subject's template changes only wholesale: a successful enrollment
\* replaces it by the template of that enrollment alone (it holds as many
\* encodings as the call reports, and for a single image exactly the encodings
\* of that image), the administrative clear empties it, and no other step
\* changes it; a verify_face on an empty
\* template gives (False, 0.0), so that after a clear every verification fails
\* until an enrollment succeeds
C21_WholesaleLifecycle ==
    [][/\ face_encoding' # face_encoding =>
             \/ /\ SaveStep
                /\ ret'.ok
                /\ face_encoding' # NoTemplate
             \/ /\ call'.op = "admin_clear_face"
                /\ face_encoding' = NoTemplate
       /\ (SaveStep /\ ret'.ok) =>
             /\ Len(face_encoding'.encs) = ret'.count
             /\ ~call'.payload.list =>
                   face_encoding' = EnrollOutcome(call'.payload).template
       /\ call'.op = "admin_clear_face" =>
             face_encoding' = NoTemplate /\ face_registered_at' = 0
       /\ (call'.op = "verify_face" /\ face_encoding = NoTemplate) =>
             /\ ~ret'.ok
             /\ ret'.conf = 0
             /\ face_encoding' = NoTemplate]_vars

\* a subject that was enrolled and then cleared is verified with its own face
C21_Witness ==
    /\ enrolled >= 1
    /\ face_encoding = NoTemplate
    /\ call.op = "verify_face"
    /\ call.image = Nd(ImgA)
    /\ ~ret.ok
    /\ ret.conf = 0

\* C22: verify_face has no side effect on the subject: whatever the input and
\* the outcome, face_encoding and face_registered_at (and the database row) are
\* what they were before the call, so that repeating the call with the same
\* probe and tolerance repeats the result
C22_VerifyNoSideEffect ==
    [][call'.op = "verify_face" =>
          /\ face_encoding' = face_encoding
          /\ face_registered_at' = face_registered_at
          /\ committed' = committed
          /\ enrolled' = enrolled
          /\ (call.op = "verify_face" /\ call.image = call'.image
                 /\ call.tolerance = call'.tolerance) => ret' = ret]_vars

\* a match on an enrolled subject, the time of registration still that of the
\* enrollment
C22_Witness ==
    /\ call.op = "verify_face"
    /\ ret.ok
    /\ enrolled >= 1
    /\ face_registered_at = now
    /\ committed = face_encoding

C30_SingleImageForms ==
    (/\ AdvancedSave
     /\ ~call.payload.list
     /\ call.payload.head.type = "ndarray"
     /\ Len(call.payload.head.img) = 1
     /\ ExtractEncoding(call.payload.head.img).found)
    => /\ ret.ok = SaveOutcome(ImageData(Single(B64(call.payload.head.img)))).ok
       /\ ret.ok

----------------------------------------------------------------------------
(* Threads in detect_phone_usage: _init_yolo_if_needed without a lock *)

YoloRest ==
    <<face_module, ADVANCED_FACE_RECOGNITION, augProfile, scores, MonitorVars, AppVars,
      face_encoding, face_registered_at, now, call, ret, enrolled, committed, yoloEnv,
      self, db, clock>>

YoloAt(t, p) == threads' = [threads EXCEPT ![t].pc = p]

\* detect_phone_usage(image) is called on thread t
CallDetectPhone(t) ==
    /\ threads[t].pc = "idle"
    /\ YoloAt(t, "check")
    /\ UNCHANGED <<YoloRest, YoloVars, loads>>

\* if YOLO_NET is not None: return; without Config or without the model files
\* the function returns as well
CheckNet(t) ==
    /\ threads[t].pc = "check"
    /\ YoloAt(t, IF YOLO_NET # "None" \/ yoloEnv \in {"no_config", "no_files"}
                 THEN "use" ELSE "load")
    /\ UNCHANGED <<YoloRest, YoloVars, loads>>

\* YOLO_NET = cv2.dnn.readNet(yolo_weights, yolo_cfg); an exception resets the
\* four globals
ReadNet(t) ==
    /\ threads[t].pc = "load"
    /\ IF yoloEnv = "load_error"
       THEN /\ YOLO_NET' = YoloUnloaded.net
            /\ YOLO_OUTPUT_LAYERS' = YoloUnloaded.layers
            /\ YOLO_CLASSES' = YoloUnloaded.classes
            /\ PHONE_CLASS_IDS' = YoloUnloaded.phone_ids
            /\ YoloAt(t, "use")
            /\ UNCHANGED loads
       ELSE /\ YOLO_NET' = "net"
            /\ loads' = loads + 1
            /\ YoloAt(t, "layers")
            /\ UNCHANGED <<YOLO_OUTPUT_LAYERS, YOLO_CLASSES, PHONE_CLASS_IDS>>
    /\ UNCHANGED YoloRest

\* YOLO_OUTPUT_LAYERS = [layer_names[...] for i in uol]
SetOutputLayers(t) ==
    /\ threads[t].pc = "layers"
    /\ YOLO_OUTPUT_LAYERS' = "layers"
    /\ YoloAt(t, "classes")
    /\ UNCHANGED <<YoloRest, YOLO_NET, YOLO_CLASSES, PHONE_CLASS_IDS, loads>>

\* YOLO_CLASSES = [line.strip() for line in f.readlines()]
SetClasses(t) ==
    /\ threads[t].pc = "classes"
    /\ YOLO_CLASSES' = ClassesFile(yoloEnv)
    /\ YoloAt(t, "ids")
    /\ UNCHANGED <<YoloRest, YOLO_NET, YOLO_OUTPUT_LAYERS, PHONE_CLASS_IDS, loads>>

\* PHONE_CLASS_IDS = set(dyn_ids), or Config.PHONE_CLASS_IDS without a phone name
SetPhoneIds(t) ==
    /\ threads[t].pc = "ids"
    /\ PHONE_CLASS_IDS' = IF DynIds(YOLO_CLASSES) # {} THEN DynIds(YOLO_CLASSES)
                          ELSE {CocoPhoneId}
    /\ YoloAt(t, "use")
    /\ UNCHANGED <<YoloRest, YOLO_NET, YOLO_OUTPUT_LAYERS, YOLO_CLASSES, loads>>

\* back in detect_phone_usage: the globals the caller goes on with
UseNet(t) ==
    /\ threads[t].pc = "use"
    /\ threads' = [threads EXCEPT ![t] = [pc |-> "done", seen |-> Yolo]]
    /\ UNCHANGED <<YoloRest, YoloVars, loads>>

YoloInit ==
    /\ face_module = "advanced"
    /\ ADVANCED_FACE_RECOGNITION = TRUE
    /\ augProfile = AllSame
    /\ face_encoding = NoTemplate
    /\ committed = NoTemplate
    /\ face_registered_at = 0
    /\ now = 0
    /\ call = NoCall
    /\ ret = NoRet
    /\ enrolled = 0
    /\ scores = <<>>
    /\ yoloEnv \in YoloEnvs
    /\ YoloStart
    /\ MonitorStart
    /\ modelEnv = "ok"
    /\ AppStart
    /\ self = [kind |-> "none"]
    /\ db = [warnings |-> 0]
    /\ clock = 0
    /\ threads = [t \in Threads |-> [pc |-> "idle", seen |-> YoloUnloaded]]
    /\ loads = 0

YoloNext ==
    \E t \in Threads :
        \/ CallDetectPhone(t)
        \/ CheckNet(t)
        \/ ReadNet(t)
        \/ SetOutputLayers(t)
        \/ SetClasses(t)
        \/ SetPhoneIds(t)
        \/ UseNet(t)

SpecYolo == YoloInit /\ [][YoloNext]_vars

\* C28: when threads make their first calls of detect_phone_usage together, the
\* network is read at most once, and a caller that finds YOLO_NET set also
\* finds the output layers, the class names and the phone class ids of the
\* finished initialisation
C28_YoloLoadedOnce ==
    /\ loads <= 1
    /\ \A t \in Threads :
          (threads[t].pc = "done" /\ threads[t].seen.net # "None") =>
              threads[t].seen = init_yolo_if_needed(YoloUnloaded, yoloEnv)

----------------------------------------------------------------------------
(* The desktop monitor: ExamMonitor and AssessmentWindow *)

\* compare_faces(known_encodings, face_encoding, tolerance) of
\* arcface_recognition: sims >= thr, a zero vector having similarity 0
compare_faces(known_encodings, encoding, tolerance) ==
    [i \in 1..Len(known_encodings) |->
        IF Norm(encoding) = 0 \/ Norm(known_encodings[i]) = 0
        THEN 0 >= tolerance
        ELSE Cosine(known_encodings[i], encoding) >= tolerance]

\* a camera frame: the faces in it, whether face_encodings gives their
\* embeddings, and whether YOLO finds a phone
CameraFrame(img, encoded, phone) == [img |-> img, encoded |-> encoded, phone |-> phone]

NoFrame == CameraFrame(ImgEmpty, FALSE, FALSE)

CameraFrames ==
    {CameraFrame(ImgEmpty, TRUE, FALSE), CameraFrame(ImgA, TRUE, FALSE),
     CameraFrame(ImgB, TRUE, TRUE), CameraFrame(ImgZ, TRUE, FALSE),
     CameraFrame(ImgC, FALSE, FALSE), CameraFrame(ImgLargeFirst, TRUE, TRUE),
     CameraFrame(ImgSmallFirst, FALSE, FALSE)}

\* the encodings load_face_encodings gives for the student
KnownFaceEncodings == <<<<5, 0>>, <<0, 5>>, <<0, -5>>, <<-5, 0>>>>

\* as Verified, were one matching encoding enough
VerifiedByAny(matches) == \E i \in 1..Len(matches) : matches[i]

\* whether match_percentage >= 50
Verified(matches) ==
    LET n == Cardinality({i \in 1..Len(matches) : matches[i]})
    IN  Len(matches) > 0 /\ 100 * n >= MatchPercentage * Len(matches)

\* _check_identity(frame): the warning type it passes to _add_warning, or
\* "none" when it calls no _add_warning
check_identity(known_face_encodings, frame) ==
    LET detected_faces == frame.img
        detected_encodings ==
            IF frame.encoded THEN [i \in 1..Len(frame.img) |-> frame.img[i].emb] ELSE <<>>
    IN  IF Len(detected_faces) = 0 THEN "none"
        ELSE IF Len(detected_faces) > 1 THEN "multiple_faces"
        ELSE IF Len(detected_encodings) > 0
             THEN IF Verified(compare_faces(known_face_encodings, detected_encodings[1],
                                            ARC_FACE_SIM_THRESHOLD))
                  THEN "none" ELSE "identity_mismatch"
             ELSE "none"

\* as InCooldown, were the cooldown a second shorter
ShortCooldown(current_time, last_warning_time) ==
    current_time - last_warning_time < WARNING_COOLDOWN - 1

\* if current_time - self.last_warning_time < Config.WARNING_COOLDOWN: return
InCooldown(current_time, last_warning_time) ==
    current_time - last_warning_time < WARNING_COOLDOWN

DeskRest ==
    <<face_module, ADVANCED_FACE_RECOGNITION, augProfile, scores, YoloVars, MonitorVars,
      AppVars, face_encoding, face_registered_at, now, call, ret, enrolled, committed, loads>>

\* a thread of the session: where it is, where its _add_warning returns to,
\* and its locals
ThreadAt(p) ==
    [pc |-> p, back |-> "none", current_time |-> 0, loaded |-> 0, frame |-> NoFrame,
     raised |-> "none", objects |-> "none"]

Goto(t, p) == threads' = [threads EXCEPT ![t].pc = p]

\* while self.is_monitoring and self.warnings_count < Config.MAX_WARNINGS
While ==
    /\ threads.loop.pc = "while"
    /\ Goto("loop", IF self.is_monitoring /\ self.warnings_count < MAX_WARNINGS
                    THEN "read" ELSE "after_loop")
    /\ UNCHANGED <<DeskRest, self, db, clock>>

\* if self.cap and self.cap.isOpened(): ret, frame = self.cap.read()
ReadFrame ==
    /\ threads.loop.pc = "read"
    /\ IF self.cap
       THEN \E frame \in CameraFrames :
               threads' = [threads EXCEPT !.loop.pc = "identity", !.loop.frame = frame]
       ELSE Goto("loop", "sleep")
    /\ UNCHANGED <<DeskRest, self, db, clock>>

\* the identity check of the iteration, when its interval has passed
CheckIdentity ==
    /\ threads.loop.pc = "identity"
    /\ \E due \in BOOLEAN :
          LET w == check_identity(self.known_face_encodings, threads.loop.frame)
          IN  threads' = [threads EXCEPT
                  !.loop.raised = IF due THEN w ELSE "skipped",
                  !.loop.back = "object",
                  !.loop.pc = IF due /\ w # "none" THEN "add_warning" ELSE "object"]
    /\ UNCHANGED <<DeskRest, self, db, clock>>

\* the object check of the iteration, with a network and when its interval
\* has passed
CheckProhibitedObjects ==
    /\ threads.loop.pc = "object"
    /\ \E due \in BOOLEAN :
          LET checks == self.net /\ due
              hit == checks /\ threads.loop.frame.phone
          IN  threads' = [threads EXCEPT
                  !.loop.objects = IF hit THEN "prohibited_object"
                                   ELSE IF checks THEN "clear" ELSE "skipped",
                  !.loop.back = "sleep",
                  !.loop.pc = IF hit THEN "add_warning" ELSE "sleep"]
    /\ UNCHANGED <<DeskRest, self, db, clock>>

\* time.sleep(Config.MONITORING_INTERVAL); the locals of the iteration end
Sleep ==
    /\ threads.loop.pc = "sleep"
    /\ threads' = [threads EXCEPT !.loop = ThreadAt("while")]
    /\ UNCHANGED <<DeskRest, self, db, clock>>

\* after the loop: if self.warnings_count >= Config.MAX_WARNINGS
AfterLoop ==
    /\ threads.loop.pc = "after_loop"
    /\ threads' = [threads EXCEPT
           !.loop.back = "exit",
           !.loop.pc = IF self.warnings_count >= MAX_WARNINGS THEN "handle" ELSE "exit"]
    /\ UNCHANGED <<DeskRest, self, db, clock>>

\* _check_window_focus on the Tk thread of an AssessmentWindow
CheckWindowFocus ==
    /\ threads.tk.pc = "focus"
    /\ self.window /\ self.is_monitoring
    /\ \E current_focus \in BOOLEAN :
          IF ~current_focus /\ self.window_focus
          THEN /\ threads' = [threads EXCEPT !.tk.pc = "add_warning",
                                             !.tk.back = "focus_lost"]
               /\ UNCHANGED self
          ELSE /\ self' = [self EXCEPT !.window_focus = current_focus]
               /\ UNCHANGED threads
    /\ UNCHANGED <<DeskRest, db, clock>>

\* self.window_focus = False, and the next check is scheduled
FocusLost ==
    /\ threads.tk.pc = "focus_lost"
    /\ self' = [self EXCEPT !.window_focus = FALSE]
    /\ Goto("tk", "focus")
    /\ UNCHANGED <<DeskRest, db, clock>>

\* _add_warning: current_time = time.time() and the cooldown test
AddWarning(t) ==
    /\ threads[t].pc = "add_warning"
    /\ threads' = [threads EXCEPT
           ![t].current_time = clock,
           ![t].pc = IF InCooldown(clock, self.last_warning_time)
                     THEN threads[t].back ELSE "load"]
    /\ UNCHANGED <<DeskRest, self, db, clock>>

\* self.warnings_count += 1 reads the field ...
LoadCount(t) ==
    /\ threads[t].pc = "load"
    /\ threads' = [threads EXCEPT ![t].loaded = self.warnings_count, ![t].pc = "store"]
    /\ UNCHANGED <<DeskRest, self, db, clock>>

\* ... and writes it back (the locals are cleared when they are dead)
StoreCount(t) ==
    /\ threads[t].pc = "store"
    /\ self' = [self EXCEPT !.warnings_count = threads[t].loaded + 1]
    /\ threads' = [threads EXCEPT ![t].loaded = 0, ![t].pc = "last"]
    /\ UNCHANGED <<DeskRest, db, clock>>

\* self.last_warning_time = current_time
SetLastWarningTime(t) ==
    /\ threads[t].pc = "last"
    /\ self' = [self EXCEPT !.last_warning_time = threads[t].current_time]
    /\ threads' = [threads EXCEPT ![t].current_time = 0, ![t].pc = "log"]
    /\ UNCHANGED <<DeskRest, db, clock>>

\* db_manager.add_warning(...) and self.violation_log.append(log_entry): one
\* more row, and the entry with the number it shows
LogWarning(t) ==
    /\ threads[t].pc = "log"
    /\ db' = [db EXCEPT !.warnings = @ + 1]
    /\ self' = [self EXCEPT !.violation_log = Append(@, self.warnings_count)]
    /\ Goto(t, "max")
    /\ UNCHANGED <<DeskRest, clock>>

\* if self.warnings_count >= Config.MAX_WARNINGS: the handler is called
CheckMax(t) ==
    /\ threads[t].pc = "max"
    /\ Goto(t, IF self.warnings_count >= MAX_WARNINGS THEN "handle" ELSE threads[t].back)
    /\ UNCHANGED <<DeskRest, self, db, clock>>

\* _handle_max_warnings_reached / _handle_max_warnings: monitoring is switched
\* off and the dialog is shown
HandleMaxWarnings(t) ==
    /\ threads[t].pc = "handle"
    /\ self' = [self EXCEPT !.is_monitoring = FALSE]
    /\ Goto(t, "end")
    /\ UNCHANGED <<DeskRest, db, clock>>

\* _end_exam / _end_assessment, once the dialog is closed
EndExam(t) ==
    /\ threads[t].pc = "end"
    /\ self' = [self EXCEPT !.is_monitoring = FALSE, !.cap = FALSE, !.window = FALSE]
    /\ db' = [db EXCEPT !.ended = IF self.session_id THEN @ + 1 ELSE @]
    /\ Goto(t, threads[t].back)
    /\ UNCHANGED <<DeskRest, clock>>

\* a second passes
Tick ==
    /\ clock < (IF self.kind = "AssessmentWindow" THEN MaxWindowTime ELSE MaxTime)
    /\ clock' = clock + 1
    /\ UNCHANGED <<DeskRest, self, db, threads>>

\* the session a start_exam_session / AssessmentWindow.start leaves
DeskInit ==
    /\ face_module = "advanced"
    /\ ADVANCED_FACE_RECOGNITION = TRUE
    /\ augProfile = AllSame
    /\ face_encoding = NoTemplate
    /\ committed = NoTemplate
    /\ face_registered_at = 0
    /\ now = 0
    /\ call = NoCall
    /\ ret = NoRet
    /\ enrolled = 0
    /\ scores = <<>>
    /\ yoloEnv = "coco"
    /\ YoloStart
    /\ MonitorStart
    /\ modelEnv = "ok"
    /\ AppStart
    /\ loads = 0
    /\ \E kind \in {"ExamMonitor", "AssessmentWindow"}, net \in BOOLEAN :
          /\ self = [kind |-> kind, is_monitoring |-> TRUE, warnings_count |-> 0,
                     last_warning_time |-> 0, violation_log |-> <<>>, session_id |-> TRUE,
                     cap |-> TRUE, window |-> TRUE, window_focus |-> TRUE, net |-> net,
                     known_face_encodings |-> KnownFaceEncodings]
          /\ threads = [loop |-> ThreadAt("while"),
                        tk |-> ThreadAt(IF kind = "AssessmentWindow" THEN "focus" ELSE "off")]
    /\ db = [warnings |-> 0, ended |-> 0]
    /\ clock = WARNING_COOLDOWN

DeskNext ==
    \/ While
    \/ ReadFrame
    \/ CheckIdentity
    \/ CheckProhibitedObjects
    \/ Sleep
    \/ AfterLoop
    \/ CheckWindowFocus
    \/ FocusLost
    \/ Tick
    \/ \E t \in {"loop", "tk"} :
          \/ AddWarning(t)
          \/ LoadCount(t)
          \/ StoreCount(t)
          \/ SetLastWarningTime(t)
          \/ LogWarning(t)
          \/ CheckMax(t)
          \/ HandleMaxWarnings(t)
          \/ EndExam(t)

SpecDesk == DeskInit /\ [][DeskNext]_vars

\* the known encodings that match the face of a frame at the ArcFace threshold
Matching(frame) ==
    {i \in 1..Len(self.known_face_encodings) :
        /\ Norm(frame.img[1].emb) # 0
        /\ Cosine(self.known_face_encodings[i], frame.img[1].emb) >= ARC_FACE_SIM_THRESHOLD}

C24_IdentityWarnings ==
    [][(/\ threads.loop.pc = "identity"
        /\ threads'.loop.pc # "identity"
        /\ threads'.loop.raised # "skipped") =>
           LET frame == threads.loop.frame
               n == Len(frame.img)
               mismatch == /\ n = 1
                           /\ frame.encoded
                           /\ 2 * Cardinality(Matching(frame)) < Len(self.known_face_encodings)
           IN  /\ threads'.loop.pc = "add_warning" <=> (n > 1 \/ mismatch)
               /\ threads'.loop.raised = (IF n > 1 THEN "multiple_faces"
                                          ELSE IF mismatch THEN "identity_mismatch"
                                          ELSE "none")
               /\ threads'.loop.pc # "add_warning" =>
                     /\ threads'.loop.pc = "object"
                     /\ self' = self
                     /\ db' = db]_vars

C24_Witness ==
    /\ threads.loop.pc = "add_warning"
    /\ threads.loop.raised = "identity_mismatch"
    /\ threads.loop.frame.img = ImgA
    /\ Cardinality(Matching(threads.loop.frame)) = 1
    /\ self.warnings_count >= 1

\* C25: warnings_count never exceeds MAX_WARNINGS, and once it has reached
\* MAX_WARNINGS the monitoring loop makes no further object check
C25_LimitStopsMonitoring ==
    /\ self.kind \in {"ExamMonitor", "AssessmentWindow"} =>
          self.warnings_count <= MAX_WARNINGS
    /\ (/\ self.kind = "ExamMonitor"
        /\ self.warnings_count >= MAX_WARNINGS
        /\ threads.loop.pc = "sleep") =>
          threads.loop.objects # "clear"
    /\ (/\ self.kind = "ExamMonitor"
        /\ self.warnings_count >= MAX_WARNINGS
        /\ threads.loop.pc = "add_warning") =>
          threads.loop.objects # "prohibited_object"

\* C26: db_manager.end_exam_session is called at most once in a session
C26_EndedOnce ==
    self.kind \in {"ExamMonitor", "AssessmentWindow"} => db.ended <= 1

\* C29: with the monitoring thread and the Tk focus check both in
\* _add_warning, at most one warning is counted in a cooldown window, every
\* counted warning adds exactly one to warnings_count, and warnings_count
\* stays at or below MAX_WARNINGS
C29_ConcurrentAddWarning ==
    self.kind = "AssessmentWindow" =>
        LET counting == {"load", "store", "last"}
            stored == {t \in {"loop", "tk"} : threads[t].pc \in {"last", "log"}}
        IN  /\ ~(threads.loop.pc \in counting /\ threads.tk.pc \in counting)
            /\ self.warnings_count = db.warnings + Cardinality(stored)
            /\ self.warnings_count <= MAX_WARNINGS

====
